---- MODULE Spec2Model ----
(***************************************************************************)
(* libSWAarchive (libSUarchive.h): the in-place '.ar' editor.              *)
(*                                                                         *)
(* The archive lives in one byte buffer.  The model keeps that buffer byte *)
(* for byte: a 16-byte header, then records of 20 bytes (three             *)
(* little-endian uint32 fields and 8 bytes of file date) followed by the   *)
(* NUL-terminated name and the payload.  The handle (siArFile) is the      *)
(* buffer plus len, cap, compression and curOffset.                        *)
(*                                                                         *)
(* Outcomes the C code has besides returning:                              *)
(*   "aborted"  a SISWA_ASSERT failed (assert() ends the process);         *)
(*   "ub"       an access outside the allocation or a read of a byte that  *)
(*              was never written: the behaviour from there on is          *)
(*              undefined and is not followed further;                     *)
(*   "hang"     a loop that never ends (a record whose size field is 0).   *)
(* memcpy on overlapping ranges is undefined as well.  Each run fixes what *)
(* the build's memcpy does there: it copies byte by byte in ascending      *)
(* addresses, byte by byte in descending addresses, or as memmove does.    *)
(***************************************************************************)
EXTENDS Integers, Sequences, FiniteSets, TLC

\* ---------------------------------------------------------------- constants
sizeof_siArHeader == 16
sizeof_siArEntry == 20
sizeof_uint32_t == 4
SISWA_DEFAULT_HEADER_ALIGNMENT == 64
SISWA_SUCCESS == 1
SISWA_FAILURE == 0
SISWA_COMPRESSION_NONE == 0
SISWA_COMPRESSION_X == 1
SISWA_COMPRESSION_SEGS == 2
SISWA_IDENTIFIER_SEGS == 1936156019
sizeof_siSegsHeader == 16
sizeof_siSegsEntry == 8
sizeof_siXCompHeader == 48
NULL == 0
SISWA_DEFAULT_STACK_SIZE == 8192
sizeof_char_ptr == 8
sizeof_siHashTable == 16
sizeof_siArlHeader == 12
sizeof_uint8_t == 1
SISWA_IDENTIFIER_ARL2 == 843862593

\* Capacity handed to siswa_arCreateArContent by the driver.
ArCap == 87

\* The driver makes at most MaxCalls calls that change the handle or the
\* buffer (add, remove, update, poll).
MaxCalls == 4

\* The archives handed to merge and to the linker constructors hold at most
\* MaxEntries entries each.
MaxEntries == 2

\* The linker is created for ArchiveCount archives with room for ArlCap bytes
\* of entries: siswa_arlCreateArlContent(ArlCap, ArchiveCount).
ArchiveCount == 2
ArlCap == 8

\* The driver makes at most MaxArlCalls successful calls on a linker.
MaxArlCalls == 3

\* SEGS files of at most MaxChunks chunks of at most MaxChunkSize bytes; the
\* output buffer is at most MaxSlack bytes larger than the decompressed size.
MaxChunks == 3
MaxChunkSize == 2
MaxSlack == 2

\* The first archive of the merge followed entry by entry holds as many
\* entries as the scratch table has slots, or up to ManyOver more.
ManyOver == 1

\* The stored 16-bit size fields of a SEGS chunk entry looked at: 0 .. MaxField
\* and the same number of values from 65535 down.
MaxField == 3

\* The inflater writes to output buffers of 0 .. MaxOut bytes.
MaxOut == 3

\* siswa_arCreateArContent: malloc(capacity + sizeof(siArHeader)).
ArPhys == ArCap + sizeof_siArHeader

\* A byte of the allocation that was never written (malloc'ed memory).
Uninit == 256

\* Entry names ("a", "ab", "b") and payloads the driver uses.  All bytes are
\* below 128, so every uint32 read from the buffer is below 2^31.
Names == {<<97>>, <<97, 98>>, <<98>>}
Payloads == {<<7>>, <<8, 9, 10>>}
MemcpyDirs == {"asc", "desc", "move"}

\* The names the driver renames linker entries to ("ab", "b").
NewNames == {<<97, 98>>, <<98>>}

VARIABLES
    arData,         \* siArFile.data: the ArPhys bytes of the allocation
    arLen,          \* siArFile.len
    arCap,          \* siArFile.cap
    arCompression,  \* siArFile.compression
    arCurOffset,    \* siArFile.curOffset
    status,         \* "ok", "aborted", "ub", "hang"
    memcpyDir,      \* how this build's memcpy walks overlapping ranges
    calls,          \* calls so far that changed the handle or the buffer
    last,           \* the last call: operation, arguments, return value
    arrayOfArs,     \* the handles passed to siswa_arMerge / siswa_arlCreateFromArMul
    run             \* the locals of a call followed step by step, NoRun otherwise

vars ==
    <<arData, arLen, arCap, arCompression, arCurOffset, status, memcpyDir, calls, last,
      arrayOfArs, run>>

\* ------------------------------------------------------------- byte helpers
\* A uint32 as stored by a little-endian host.
Le32(v) ==
    << v % 256, (v \div 256) % 256, (v \div 65536) % 256, (v \div 16777216) % 256 >>

\* data[off] in C: the buffer is kept as the sequence of its bytes.
At(data, off) == data[off + 1]

\* Bytes [off, off+n) lie inside the allocation.
InBounds(off, n) == off >= 0 /\ n >= 0 /\ off + n <= ArPhys

\* Bytes [off, off+n) can be read: inside the allocation and written before.
ReadOk(data, off, n) ==
    InBounds(off, n) /\ \A i \in off .. (off + n - 1) : At(data, i) # Uninit

\* *(uint32_t*)(data + off)
Rd32(data, off) ==
    At(data, off) + 256 * At(data, off + 1) + 65536 * At(data, off + 2)
        + 16777216 * At(data, off + 3)

\* memcpy(data + off, bytes, Len(bytes)) from a buffer outside the archive.
WriteBytes(data, off, bytes) ==
    [j \in 1 .. Len(data) |->
        LET i == j - 1 IN
        IF i >= off /\ i < off + Len(bytes) THEN bytes[i - off + 1] ELSE At(data, i)]

\* memcpy(data + dst, data + src, n) inside the archive buffer.  Copying in
\* ascending addresses repeats the first (dst - src) bytes when dst is above
\* src and the ranges overlap; copying in descending addresses repeats the
\* last (src - dst) bytes when dst is below src and the ranges overlap.
\* Without overlap, and with "move", the result is the plain copy.
Memcpy(data, dst, src, n, dir) ==
    [j \in 1 .. Len(data) |->
        LET i == j - 1 IN
        IF i < dst \/ i >= dst + n \/ dst = src THEN At(data, i)
        ELSE LET k == i - dst IN
             IF dir = "move" THEN At(data, src + k)
             ELSE IF dir = "asc"
             THEN IF dst < src THEN At(data, src + k)
                  ELSE At(data, src + (k % (dst - src)))
             ELSE IF dst > src THEN At(data, src + k)
                  ELSE LET d == src - dst IN
                       IF k >= n - d THEN At(data, src + k)
                       ELSE At(data, src + (n - d) + ((k - (n - d)) % d))]

\* ------------------------------------------------------------ record fields
EntrySize(data, e) == Rd32(data, e)
EntryDataSize(data, e) == Rd32(data, e + 4)
EntryOffset(data, e) == Rd32(data, e + 8)

\* siswa_arEntryGetName: (char*)entry + sizeof(siArEntry)
siswa_arEntryGetName(e) == e + sizeof_siArEntry

\* strncmp(name + i - 1, data + p, n): "eq", "ne", or "ub" when it had to read
\* a byte it may not read.  name is a C string: a NUL follows its last byte.
RECURSIVE strncmp(_, _, _, _, _)
strncmp(name, i, data, p, n) ==
    IF n = 0 THEN "eq"
    ELSE IF ~ReadOk(data, p, 1) THEN "ub"
    ELSE LET c1 == IF i <= Len(name) THEN name[i] ELSE 0
             c2 == At(data, p)
         IN  IF c1 # c2 THEN "ne"
             ELSE IF c1 = 0 THEN "eq"
             ELSE strncmp(name, i + 1, data, p + 1, n - 1)

\* *name == *entryName && strncmp(name + 1, entryName + 1, nameLen - 1) == 0
NameMatches(data, e, name) ==
    LET entryName == siswa_arEntryGetName(e) IN
    IF ~ReadOk(data, entryName, 1) THEN "ub"
    ELSE IF Len(name) = 0
         \* *name is the NUL; nameLen - 1 wraps and name + 1 is past the string
         THEN IF At(data, entryName) # 0 THEN "ne" ELSE "ub"
    ELSE IF name[1] # At(data, entryName) THEN "ne"
    ELSE strncmp(name, 2, data, entryName + 1, Len(name) - 1)

\* ------------------------------------------------------------------ polling
\* C11 mutant: the poll at the end leaves the cursor where it is.
C11_NoReset(cur) == cur

\* siswa_arOffsetReset: arFile->curOffset = sizeof(siArHeader)
siswa_arOffsetReset(cur) == sizeof_siArHeader

\* siswa_arEntryPoll on a handle (data, len, cur): the entry returned (NULL at
\* the end) and the cursor afterwards.

PollStep(data, len, cur) ==
    IF cur >= len THEN [st |-> "ok", entry |-> NULL, cur |-> siswa_arOffsetReset(cur)]
    ELSE IF ~ReadOk(data, cur, sizeof_uint32_t)
         THEN [st |-> "ub", entry |-> NULL, cur |-> cur]
    ELSE [st |-> "ok", entry |-> cur, cur |-> cur + EntrySize(data, cur)]

\* The loop of siswa_arEntryFindEx, the cursor of the by-value copy at cur.
RECURSIVE FindWalk(_, _, _, _)
FindWalk(data, len, cur, name) ==
    LET p == PollStep(data, len, cur) IN
    IF p.st # "ok" THEN [st |-> p.st, entry |-> NULL]
    ELSE IF p.entry = NULL THEN [st |-> "ok", entry |-> NULL]
    ELSE LET m == NameMatches(data, p.entry, name) IN
         IF m = "ub" THEN [st |-> "ub", entry |-> NULL]
         ELSE IF m = "eq" THEN [st |-> "ok", entry |-> p.entry]
         ELSE IF p.cur = cur THEN [st |-> "hang", entry |-> NULL]
         ELSE FindWalk(data, len, p.cur, name)

\* siswa_arEntryFindEx: arFile.curOffset = sizeof(siArHeader), then the loop.
FindStart(cur) == sizeof_siArHeader

siswa_arEntryFindEx(data, len, cur, name) ==
    FindWalk(data, len, FindStart(cur), name)

\* The duplicate scan of siswa_arEntryAddEx over tmpArFile = *arFile: offset
\* starts at sizeof(siArHeader) and follows the cursor of the copy.
RECURSIVE AddWalk(_, _, _, _, _)
AddWalk(data, len, cur, offset, name) ==
    LET p == PollStep(data, len, cur) IN
    IF p.st # "ok" THEN [st |-> p.st, dup |-> FALSE, offset |-> offset]
    ELSE IF p.entry = NULL THEN [st |-> "ok", dup |-> FALSE, offset |-> offset]
    ELSE LET m == NameMatches(data, p.entry, name) IN
         IF m = "ub" THEN [st |-> "ub", dup |-> FALSE, offset |-> p.cur]
         ELSE IF m = "eq" THEN [st |-> "ok", dup |-> TRUE, offset |-> p.cur]
         ELSE IF p.cur = cur THEN [st |-> "hang", dup |-> FALSE, offset |-> p.cur]
         ELSE AddWalk(data, len, p.cur, p.cur, name)

\* ------------------------------------------------------------ create-empty
\* The header siswa_arCreateArContentEx writes.
HeaderBytes ==
    Le32(0) \o Le32(sizeof_siArHeader) \o Le32(sizeof_siArEntry)
        \o Le32(SISWA_DEFAULT_HEADER_ALIGNMENT)

\* No call is being followed step by step.
NoRun == [op |-> "none"]

NoCall ==
    [op |-> "create", name |-> <<>>, data |-> <<>>, ret |-> SISWA_SUCCESS,
     offset |-> 0, preLen |-> 0, preCur |-> 0]

Call(op, name, data, ret, offset) ==
    [op |-> op, name |-> name, data |-> data, ret |-> ret, offset |-> offset,
     preLen |-> arLen, preCur |-> arCurOffset]

\* siswa_arCreateArContent(ArCap)
Init ==
    /\ arData = [j \in 1 .. ArPhys |->
                    IF j <= sizeof_siArHeader THEN HeaderBytes[j] ELSE Uninit]
    /\ arLen = sizeof_siArHeader
    /\ arCap = ArCap
    /\ arCompression = SISWA_COMPRESSION_NONE
    /\ arCurOffset = sizeof_siArHeader
    /\ status = "ok"
    /\ memcpyDir \in MemcpyDirs
    /\ calls = 0
    /\ last = NoCall
    /\ arrayOfArs = <<>>
    /\ run = NoRun

\* The call ended the run: assertion failure, undefined behaviour, endless loop.
Stop(st, op, name, data, offset) ==
    /\ status' = st
    /\ last' = Call(op, name, data, NULL, offset)
    /\ UNCHANGED <<arData, arLen, arCap, arCompression, arCurOffset, memcpyDir, calls,
                 arrayOfArs, run>>

\* The call returned and left the handle and the buffer alone.
Return(op, name, data, ret, offset) ==
    /\ last' = Call(op, name, data, ret, offset)
    /\ UNCHANGED <<arData, arLen, arCap, arCompression, arCurOffset, status, memcpyDir,
                 calls, arrayOfArs, run>>

\* -------------------------------------------------------------------- add
\* C2 mutant: the NUL after the name is not counted.
NewEntrySizeNoNul(nameLen, dataSize) == dataSize + nameLen + sizeof_siArEntry

\* newEntry.size, newEntry.offset
NewEntrySize(nameLen, dataSize) == dataSize + nameLen + 1 + sizeof_siArEntry
NewEntryOffset(nameLen) == nameLen + 1 + sizeof_siArEntry

\* The bytes the three memcpy calls and the NUL store put at data + offset.
NewEntryBytes(name, payload) ==
    Le32(NewEntrySize(Len(name), Len(payload))) \o Le32(Len(payload))
        \o Le32(NewEntryOffset(Len(name))) \o <<0, 0, 0, 0, 0, 0, 0, 0>>
        \o name \o <<0>> \o payload

\* SISWA_ASSERT(offset + newEntry.size < arFile->cap, ...)
AddFits(offset, size, cap) == offset + size < cap

\* tmpArFile = *arFile: the scan starts at the handle's cursor.
AddStart(cur) == cur

siswa_arEntryAddEx(name, payload) ==
    /\ status = "ok"
    /\ calls < MaxCalls
    /\ LET w == AddWalk(arData, arLen, AddStart(arCurOffset), sizeof_siArHeader, name)
           size == NewEntrySize(Len(name), Len(payload))
       IN  IF w.st # "ok" THEN Stop(w.st, "add", name, payload, w.offset)
           ELSE IF w.dup THEN Return("add", name, payload, SISWA_FAILURE, w.offset)
           ELSE IF ~AddFits(w.offset, size, arCap)
                THEN Stop("aborted", "add", name, payload, w.offset)
           ELSE IF ~InBounds(w.offset, size)
                THEN Stop("ub", "add", name, payload, w.offset)
           ELSE /\ arData' = WriteBytes(arData, w.offset, NewEntryBytes(name, payload))
                /\ arLen' = arLen + size
                /\ last' = Call("add", name, payload, SISWA_SUCCESS, w.offset)
                /\ calls' = calls + 1
                /\ UNCHANGED <<arCap, arCompression, arCurOffset, status, memcpyDir, arrayOfArs, run>>

\* ----------------------------------------------------------------- remove
siswa_arEntryRemoveEx(name, dir) ==
    /\ status = "ok"
    /\ calls < MaxCalls
    /\ LET f == siswa_arEntryFindEx(arData, arLen, arCurOffset, name) IN
       IF f.st # "ok" THEN Stop(f.st, "remove", name, <<>>, 0)
       ELSE IF f.entry = NULL THEN Return("remove", name, <<>>, SISWA_FAILURE, 0)
       ELSE LET offset == f.entry
                size == EntrySize(arData, offset)
                newLen == arLen - size
                n == newLen - offset
            IN  \* a negative size_t is a huge one: the memcpy leaves the buffer
                IF newLen < 0 \/ n < 0 \/ ~InBounds(offset + size, n)
                THEN Stop("ub", "remove", name, <<>>, offset)
                ELSE /\ arLen' = newLen
                     /\ arData' = Memcpy(arData, offset, offset + size, n, dir)
                     /\ last' = Call("remove", name, <<>>, SISWA_SUCCESS, offset)
                     /\ calls' = calls + 1
                     /\ UNCHANGED <<arCap, arCompression, arCurOffset, status, memcpyDir, arrayOfArs, run>>

\* ----------------------------------------------------------------- update
\* SISWA_ASSERT(offset + entry->size < arFile->cap, ...)
UpdateFits(offset, size, cap) == offset + size < cap

siswa_arEntryUpdateEx(name, payload, dir) ==
    /\ status = "ok"
    /\ calls < MaxCalls
    /\ LET f == siswa_arEntryFindEx(arData, arLen, arCurOffset, name) IN
       IF f.st # "ok" THEN Stop(f.st, "update", name, payload, 0)
       ELSE IF f.entry = NULL THEN Return("update", name, payload, SISWA_FAILURE, 0)
       ELSE LET offset == f.entry
                oldSize == EntrySize(arData, offset)
                newSize == NewEntrySize(Len(name), Len(payload))
                n == arLen - offset - oldSize
                \* entry->size = ...; entry->dataSize = dataSize;
                d1 == WriteBytes(arData, offset, Le32(newSize) \o Le32(Len(payload)))
                \* memcpy(entryPtr + entry->size, entryPtr + oldSize, n)
                d2 == Memcpy(d1, offset + newSize, offset + oldSize, n, dir)
                entryOffset == EntryOffset(d2, offset)
            IN  IF ~UpdateFits(offset, newSize, arCap)
                THEN Stop("aborted", "update", name, payload, offset)
                ELSE IF n < 0 \/ ~InBounds(offset + oldSize, n)
                          \/ ~InBounds(offset + newSize, n)
                THEN Stop("ub", "update", name, payload, offset)
                ELSE IF ~ReadOk(d2, offset + 8, sizeof_uint32_t)
                          \/ ~InBounds(offset + entryOffset, Len(payload))
                THEN Stop("ub", "update", name, payload, offset)
                ELSE /\ arData' = WriteBytes(d2, offset + entryOffset, payload)
                     /\ arLen' = arLen - (oldSize - newSize)
                     /\ last' = Call("update", name, payload, SISWA_SUCCESS, offset)
                     /\ calls' = calls + 1
                     /\ UNCHANGED <<arCap, arCompression, arCurOffset, status, memcpyDir, arrayOfArs, run>>

\* ------------------------------------------------------------ poll, find
siswa_arEntryPoll ==
    /\ status = "ok"
    /\ calls < MaxCalls
    /\ LET p == PollStep(arData, arLen, arCurOffset) IN
       IF p.st # "ok" THEN Stop(p.st, "poll", <<>>, <<>>, 0)
       ELSE /\ arCurOffset' = p.cur
            /\ last' = Call("poll", <<>>, <<>>, p.entry, 0)
            /\ calls' = calls + 1
            /\ UNCHANGED <<arData, arLen, arCap, arCompression, status, memcpyDir, arrayOfArs, run>>

siswa_arEntryFind(name) ==
    /\ status = "ok"
    /\ LET f == siswa_arEntryFindEx(arData, arLen, arCurOffset, name) IN
       IF f.st # "ok" THEN Stop(f.st, "find", name, <<>>, 0)
       ELSE Return("find", name, <<>>, f.entry, 0)

\* ------------------------------------------------------------ entry count
\* The loop of siswa_arGetEntryCount over its by-value copy of the handle,
\* the cursor of the copy at cur: count += 1 until poll returns NULL.
RECURSIVE CountWalk(_, _, _)
CountWalk(data, len, cur) ==
    LET p == PollStep(data, len, cur) IN
    IF p.st # "ok" THEN [st |-> p.st, count |-> 0]
    ELSE IF p.entry = NULL THEN [st |-> "ok", count |-> 0]
    ELSE IF p.cur = cur THEN [st |-> "hang", count |-> 0]
    ELSE LET r == CountWalk(data, len, p.cur) IN
         [st |-> r.st, count |-> r.count + 1]

\* siswa_arGetEntryCount(arFile): the copy keeps the caller's cursor.
siswa_arGetEntryCount(data, len, cur) == CountWalk(data, len, cur)

GetEntryCount ==
    /\ status = "ok"
    /\ LET c == siswa_arGetEntryCount(arData, arLen, arCurOffset) IN
       IF c.st # "ok" THEN Stop(c.st, "count", <<>>, <<>>, 0)
       ELSE Return("count", <<>>, <<>>, c.count, 0)

\* ------------------------------------------------------------------- specs
Add == \E name \in Names, payload \in Payloads : siswa_arEntryAddEx(name, payload)
Remove == \E name \in Names : siswa_arEntryRemoveEx(name, memcpyDir)
Update ==
    \E name \in Names, payload \in Payloads :
        siswa_arEntryUpdateEx(name, payload, memcpyDir)
Poll == siswa_arEntryPoll
Find == \E name \in Names : siswa_arEntryFind(name)

\* Any interleaving of the calls on one handle.
Next == Add \/ Remove \/ Update \/ Poll \/ Find
Spec == Init /\ [][Next]_vars

\* The editing calls only: the cursor stays where create-empty put it.
NextEdit == Add \/ Remove \/ Update \/ Find
SpecEdit == Init /\ [][NextEdit]_vars

\* siswa_arMakeBufferEx(image, Len(image), ArCap) over an archive image that
\* was read into an allocation of ArPhys bytes: three entries with the names
\* of Names in some order and one-byte payloads, as the library writes them.
\* The first four bytes are 0, none of the identifiers.
Images ==
    { HeaderBytes \o NewEntryBytes(n1, <<7>>) \o NewEntryBytes(n2, <<7>>)
          \o NewEntryBytes(n3, <<7>>) :
        <<n1, n2, n3>> \in { t \in Names \X Names \X Names :
                                t[1] # t[2] /\ t[1] # t[3] /\ t[2] # t[3] } }

\* SISWA_IDENTIFIER_XCOMPRESSION, 0xEE12F50F, as its bytes in memory.
IdentifierXCompression == <<15, 245, 18, 238>>

\* The kind siswa_arMakeBufferEx reads off the first four bytes.
CompressionOf(image) ==
    IF SubSeq(image, 1, 4) = IdentifierXCompression THEN SISWA_COMPRESSION_X
    ELSE IF SubSeq(image, 1, 4) = Le32(SISWA_IDENTIFIER_SEGS) THEN SISWA_COMPRESSION_SEGS
    ELSE SISWA_COMPRESSION_NONE

siswa_arMakeBufferEx(image, capacity) ==
    /\ Len(image) <= capacity
    /\ SubSeq(image, 1, 4) # Le32(SISWA_IDENTIFIER_ARL2)
    /\ arData = [j \in 1 .. ArPhys |->
                    IF j <= Len(image) THEN image[j] ELSE Uninit]
    /\ arLen = Len(image)
    /\ arCap = capacity
    /\ arCompression = CompressionOf(image)
    /\ arCurOffset = sizeof_siArHeader

\* The build's memcpy behaves as memmove here.
InitLoaded ==
    /\ \E image \in Images : siswa_arMakeBufferEx(image, ArCap)
    /\ status = "ok"
    /\ memcpyDir = "move"
    /\ calls = 0
    /\ last = [NoCall EXCEPT !.op = "make"]
    /\ arrayOfArs = <<>>
    /\ run = NoRun

SpecLoaded == InitLoaded /\ [][NextEdit]_vars

\* Archive images of up to two entries, as the library writes them.
PollImages ==
    {HeaderBytes}
        \cup { HeaderBytes \o NewEntryBytes(n1, p1) : n1 \in Names, p1 \in Payloads }
        \cup { HeaderBytes \o NewEntryBytes(n1, p1) \o NewEntryBytes(n2, p2) :
                    <<n1, p1, n2, p2>> \in { t \in Names \X Payloads \X Names \X Payloads :
                                                t[1] # t[3] } }

\* A handle made over an image, then iterated: while (poll) ... and on.
InitPoll ==
    /\ \E image \in PollImages : siswa_arMakeBufferEx(image, ArCap)
    /\ status = "ok"
    /\ memcpyDir = "move"
    /\ calls = 0
    /\ last = [NoCall EXCEPT !.op = "make"]
    /\ arrayOfArs = <<>>
    /\ run = NoRun

NextPoll == Poll
SpecPoll == InitPoll /\ [][NextPoll]_vars

\* Adds, an iteration in progress, and entry counts in between.
NextCount == Add \/ Poll \/ GetEntryCount
SpecCount == Init /\ [][NextCount]_vars

\* An archive built by create-empty and add calls, then one remove.
Building == last.op \in {"create", "add"}
BuildAdd == Building /\ Add
BuildRemove == Building /\ Remove
NextBuild == BuildAdd \/ BuildRemove
SpecBuild == Init /\ [][NextBuild]_vars

\* ---------------------------------------------------------------- readers
\* What a caller sees who iterates the archive from the header end, as the
\* listing loops of the examples do: while (poll) { name, size, data }.
RECURSIVE IterFrom(_, _, _)
IterFrom(data, len, cur) ==
    LET p == PollStep(data, len, cur) IN
    IF p.st # "ok" THEN [st |-> p.st, offs |-> <<>>]
    ELSE IF p.entry = NULL THEN [st |-> "ok", offs |-> <<>>]
    ELSE IF p.cur = cur THEN [st |-> "hang", offs |-> <<>>]
    ELSE LET r == IterFrom(data, len, p.cur) IN
         [st |-> r.st, offs |-> <<p.entry>> \o r.offs]

\* The offsets of the entries met from the header end; <<>> with st # "ok"
\* when the walk leaves the defined part of the buffer or never ends.
EntryOffsets(data, len) == IterFrom(data, len, sizeof_siArHeader)

\* The bytes [off, off + n) of the buffer.
Bytes(data, off, n) == [i \in 1 .. n |-> At(data, off + i - 1)]

\* printf("%s", siswa_arEntryGetName(entry)): the bytes up to the NUL.
RECURSIVE CStr(_, _)
CStr(data, p) ==
    IF ~InBounds(p, 1) \/ At(data, p) = 0 \/ At(data, p) = Uninit THEN <<>>
    ELSE <<At(data, p)>> \o CStr(data, p + 1)

StoredName(data, e) == CStr(data, siswa_arEntryGetName(e))

\* The archive reads as a sequence of whole records inside the allocation.
Readable(data, len) ==
    LET it == EntryOffsets(data, len) IN
    /\ it.st = "ok"
    /\ \A k \in 1 .. Len(it.offs) :
          InBounds(it.offs[k], EntrySize(data, it.offs[k]))

\* The records in stored order, each as its bytes.
Records(data, len) ==
    LET offs == EntryOffsets(data, len).offs IN
    [k \in 1 .. Len(offs) |-> Bytes(data, offs[k], EntrySize(data, offs[k]))]

\* The offsets of the entries whose stored name is byte-equal to name.
Holding(data, len, name) ==
    LET offs == EntryOffsets(data, len).offs IN
    {offs[k] : k \in {j \in 1 .. Len(offs) : StoredName(data, offs[j]) = name}}

\* siswa_arEntryGetData: (siByte*)entry + entry->offset, entry->dataSize bytes.
siswa_arEntryGetData(data, e) ==
    Bytes(data, e + EntryOffset(data, e), EntryDataSize(data, e))

\* Every payload the listing loop reads lies in written bytes of the buffer.
PayloadsReadable(data, len) ==
    LET offs == EntryOffsets(data, len).offs IN
    \A k \in 1 .. Len(offs) :
        ReadOk(data, offs[k] + EntryOffset(data, offs[k]), EntryDataSize(data, offs[k]))

\* The (name, payload) pairs in the order poll returns the entries.
Pairs(data, len) ==
    LET offs == EntryOffsets(data, len).offs IN
    [k \in 1 .. Len(offs) |->
        [name |-> StoredName(data, offs[k]),
         payload |-> siswa_arEntryGetData(data, offs[k])]]

\* ------------------------------------------------------------- re-emitting
\* siswa_arCreateArContentEx(buffer, capacity) on a buffer of ArPhys bytes.
siswa_arCreateArContentEx(capacity) ==
    [data |-> [j \in 1 .. ArPhys |->
                  IF j <= sizeof_siArHeader THEN HeaderBytes[j] ELSE Uninit],
     len |-> sizeof_siArHeader, cap |-> capacity, cur |-> sizeof_siArHeader,
     st |-> "ok", ret |-> SISWA_SUCCESS]

\* siswa_arEntryAddEx on a handle h held as a value.
ArAdd(h, name, payload) ==
    LET w == AddWalk(h.data, h.len, AddStart(h.cur), sizeof_siArHeader, name)
        size == NewEntrySize(Len(name), Len(payload))
    IN  IF w.st # "ok" THEN [h EXCEPT !.st = w.st]
        ELSE IF w.dup THEN [h EXCEPT !.ret = SISWA_FAILURE]
        ELSE IF ~AddFits(w.offset, size, h.cap) THEN [h EXCEPT !.st = "aborted"]
        ELSE IF ~InBounds(w.offset, size) THEN [h EXCEPT !.st = "ub"]
        ELSE [h EXCEPT !.data = WriteBytes(h.data, w.offset, NewEntryBytes(name, payload)),
                       !.len = h.len + size,
                       !.ret = SISWA_SUCCESS]

\* One add per pair, in order, stopping at the first add that does not succeed.
RECURSIVE AddAll(_, _, _)
AddAll(h, pairs, k) ==
    IF k > Len(pairs) \/ h.st # "ok" \/ h.ret # SISWA_SUCCESS THEN h
    ELSE AddAll(ArAdd(h, pairs[k].name, pairs[k].payload), pairs, k + 1)

\* create-empty over a buffer of ArPhys bytes, then one add per pair.
ReEmit(pairs) == AddAll(siswa_arCreateArContentEx(ArPhys), pairs, 1)

\* ------------------------------------------------------------ scratch set
\* The slot index is hash & (capacity - 1) with capacity - 1 below 2^10, so
\* only the low ten bits of the 64-bit FNV-1a hash matter; xor and multiply
\* keep the low ten bits a function of the low ten bits.
HashLow == 1024
SI_FNV_OFFSET_low == 805    \* 14695981039346656037 % 1024
SI_FNV_PRIME_low == 435     \* 1099511628211 % 1024

RECURSIVE BitXor(_, _)
BitXor(a, b) ==
    IF a = 0 THEN b
    ELSE IF b = 0 THEN a
    ELSE ((a + b) % 2) + 2 * BitXor(a \div 2, b \div 2)

RECURSIVE BitAnd(_, _)
BitAnd(a, b) ==
    IF a = 0 \/ b = 0 THEN 0
    ELSE ((a % 2) * (b % 2)) + 2 * BitAnd(a \div 2, b \div 2)

\* si_hash_key, low bits: hash ^= *p; hash *= SI_FNV_PRIME for every byte.
RECURSIVE HashFrom(_, _, _)
HashFrom(hash, key, i) ==
    IF i > Len(key) THEN hash
    ELSE HashFrom((BitXor(hash, key[i]) * SI_FNV_PRIME_low) % HashLow, key, i + 1)

si_hash_key(key) == HashFrom(SI_FNV_OFFSET_low, key, 1)

\* siswa_arMergeMul: SISWA_DEFAULT_STACK_SIZE / sizeof(char*) - sizeof(siHashTable)
HtCapacity == (SISWA_DEFAULT_STACK_SIZE \div sizeof_char_ptr) - sizeof_siHashTable

HtIndex(key) == BitAnd(si_hash_key(key), HtCapacity - 1)

\* The table is the set of its occupied slots, <<slot, key>>.
si_hashtable_make_reserve == {}

\* The do-while walks every slot once, skipping the empty ones, and compares
\* the whole strings.
si_hashtable_exists(ht, key) ==
    IF \E e \in ht : e[2] = key THEN SISWA_SUCCESS ELSE SISWA_FAILURE

\* while (*entry != NULL) entry += 1, wrapping at the end of the table.
RECURSIVE HtProbe(_, _)
HtProbe(ht, slot) ==
    IF \A e \in ht : e[1] # slot THEN slot
    ELSE HtProbe(ht, (slot + 1) % HtCapacity)

\* si_hashtable_set; with every slot taken the probe never ends.
HtFull(ht) == Cardinality(ht) >= HtCapacity
si_hashtable_set(ht, key) == ht \cup {<<HtProbe(ht, HtIndex(key)), key>>}

\* The numbers of entries of the long archive file.
ManyCounts == { HtCapacity + d : d \in 0 .. ManyOver }

\* ------------------------------------------------------------------- merge
\* if (i != arrayLen - 1) si_hashtable_set(ht, name); i counts from 1 here.
InsertsName(i, arrayLen) == i # arrayLen

\* The loops of siswa_arMergeMul from archive i on, the cursor of curAr at
\* cur.  m: the output buffer, the write position, totalSize, the table.
\* lastToo: the names of the last archive are inserted as well (the code
\* runs with lastToo = FALSE).
RECURSIVE MergeWalk(_, _, _, _, _, _)
MergeWalk(ars, capacity, lastToo, m, i, cur) ==
    IF m.st # "ok" \/ i > Len(ars) THEN m
    ELSE
    LET p == PollStep(ars[i].data, ars[i].len, cur) IN
    IF p.st # "ok" THEN [m EXCEPT !.st = p.st]
    ELSE IF p.entry = NULL
         THEN MergeWalk(ars, capacity, lastToo, m, i + 1,
                        IF i < Len(ars) THEN ars[i + 1].cur ELSE 0)
    ELSE IF p.cur = cur THEN [m EXCEPT !.st = "hang"]
    ELSE
    LET name == StoredName(ars[i].data, p.entry)
        size == EntrySize(ars[i].data, p.entry)
        res == si_hashtable_exists(m.ht, name)
        insert == lastToo \/ InsertsName(i, Len(ars))
        totalSize == m.totalSize + size
    IN  IF res # SISWA_FAILURE THEN MergeWalk(ars, capacity, lastToo, m, i, p.cur)
        ELSE IF insert /\ HtFull(m.ht) THEN [m EXCEPT !.st = "hang"]
        ELSE IF ~(capacity >= totalSize) THEN [m EXCEPT !.st = "aborted"]
        ELSE IF ~InBounds(p.entry, size) \/ ~InBounds(m.buffer, size)
             THEN [m EXCEPT !.st = "ub"]
        ELSE MergeWalk(ars, capacity, lastToo,
                 [data |-> WriteBytes(m.data, m.buffer, Bytes(ars[i].data, p.entry, size)),
                  buffer |-> m.buffer + size,
                  totalSize |-> totalSize,
                  ht |-> IF insert THEN si_hashtable_set(m.ht, name) ELSE m.ht,
                  st |-> "ok"],
                 i, p.cur)

\* siswa_arMergeMul over an output buffer outBuffer of ArPhys bytes: the
\* header, then the loops; the result is the buffer and totalSize.
MergeMul(ars, outBuffer, capacity, lastToo) ==
    MergeWalk(ars, capacity, lastToo,
              [data |-> WriteBytes(outBuffer, 0, HeaderBytes),
               buffer |-> sizeof_siArHeader,
               totalSize |-> sizeof_siArHeader,
               ht |-> si_hashtable_make_reserve,
               st |-> "ok"],
              1, IF Len(ars) >= 1 THEN ars[1].cur ELSE 0)

siswa_arMergeMul(ars, outBuffer, capacity) == MergeMul(ars, outBuffer, capacity, FALSE)

\* A buffer nothing was written to yet.
FreshBuffer == [j \in 1 .. ArPhys |-> Uninit]

\* siswa_arMerge(arrayOfArs, outBuffer, ArCap): the result becomes the handle.
siswa_arMerge ==
    /\ status = "ok"
    /\ Len(arrayOfArs) = 2
    /\ LET m == siswa_arMergeMul(arrayOfArs, FreshBuffer, ArCap) IN
       IF m.st # "ok" THEN Stop(m.st, "merge", <<>>, <<>>, 0)
       ELSE /\ arData' = m.data
            /\ arLen' = m.totalSize
            /\ arCap' = ArCap
            /\ arCompression' = SISWA_COMPRESSION_NONE
            /\ arCurOffset' = sizeof_siArHeader
            /\ last' = Call("merge", <<>>, <<>>, SISWA_SUCCESS, 0)
            /\ UNCHANGED <<status, memcpyDir, calls, arrayOfArs, run>>

\* siswa_arEntryPoll(&arrayOfArs[i]) by the caller, before the merge.
PollInput(i) ==
    /\ status = "ok"
    /\ last.op \in {"make", "pollin"}
    /\ LET p == PollStep(arrayOfArs[i].data, arrayOfArs[i].len, arrayOfArs[i].cur) IN
       IF p.st # "ok" THEN Stop(p.st, "pollin", <<>>, <<>>, i)
       ELSE /\ arrayOfArs' = [arrayOfArs EXCEPT ![i].cur = p.cur]
            /\ UNCHANGED run
            /\ last' = Call("pollin", <<>>, <<>>, p.entry, i)
            /\ UNCHANGED <<arData, arLen, arCap, arCompression, arCurOffset, status,
                           memcpyDir, calls>>

\* The archive file of index i holding the names of the sequence ns, entry k
\* with the one-byte payload 10 * i + k, as the library writes it.
RECURSIVE InputBytes(_, _, _)
InputBytes(i, ns, k) ==
    IF k > Len(ns) THEN <<>>
    ELSE NewEntryBytes(ns[k], <<10 * i + k>>) \o InputBytes(i, ns, k + 1)

InputImage(i, ns) == HeaderBytes \o InputBytes(i, ns, 1)

NameSeqs == UNION { [1 .. n -> Names] : n \in 0 .. MaxEntries }

\* siswa_arMake(path): the handle over the file's bytes, cap = len.
siswa_arMake(image) ==
    [data |-> [j \in 1 .. ArPhys |-> IF j <= Len(image) THEN image[j] ELSE Uninit],
     len |-> Len(image), cap |-> Len(image), cur |-> sizeof_siArHeader]

\* Two handles made over archive files; no output handle yet.
InitMany ==
    /\ \E ns1 \in NameSeqs, ns2 \in NameSeqs :
          arrayOfArs = << siswa_arMake(InputImage(1, ns1)), siswa_arMake(InputImage(2, ns2)) >>
    /\ arData = FreshBuffer
    /\ arLen = 0
    /\ arCap = 0
    /\ arCompression = SISWA_COMPRESSION_NONE
    /\ arCurOffset = 0
    /\ status = "ok"
    /\ memcpyDir = "move"
    /\ calls = 0
    /\ last = [NoCall EXCEPT !.op = "make"]
    /\ run = NoRun

PollInputs == \E i \in 1 .. Len(arrayOfArs) : PollInput(i)
Merge == siswa_arMerge
NextMerge == PollInputs \/ Merge
SpecMerge == InitMany /\ [][NextMerge]_vars

\* The handles as siswa_arMake leaves them, merged at once.
NextMergeMade == Merge
SpecMergeMade == InitMany /\ [][NextMergeMade]_vars

\* ------------------------------------------------- merge, entry by entry
\* siswa_arMergeMul over two archive files followed one polled entry at a
\* time, for files too long for the byte model: the first file holds
\* run.n entries, entry k named ManyName(k), the second one entry named
\* ManyName(0).  run holds the locals: i, the entries of arrayOfArs[i - 1]
\* polled so far, the table, totalSize.  The bytes written to the output
\* buffer are not followed here, and capacity is as large as needed.
ManyName(k) == << 1 + (k \div 100), 1 + (k % 100) >>

\* sizeof(siArEntry) + the name and its terminator + one byte of data
ManyEntrySize(k) == sizeof_siArEntry + Len(ManyName(k)) + 1 + 1

ManyCount(r) == IF r.i = 1 THEN r.n ELSE 1

InitManyNames ==
    /\ arData = FreshBuffer
    /\ arLen = 0
    /\ arCap = 0
    /\ arCompression = SISWA_COMPRESSION_NONE
    /\ arCurOffset = 0
    /\ status = "ok"
    /\ memcpyDir = "move"
    /\ calls = 0
    /\ last = [NoCall EXCEPT !.op = "make"]
    /\ arrayOfArs = <<>>
    /\ \E n \in ManyCounts :
          run = [op |-> "merge", n |-> n, i |-> 1, k |-> 0,
                 ht |-> si_hashtable_make_reserve, totalSize |-> sizeof_siArHeader]

\* One turn of while ((entry = siswa_arEntryPoll(&curAr)) != NULL), or the
\* step to the next archive, or the return behind the loops.
MergeStep ==
    /\ status = "ok"
    /\ run.op = "merge"
    /\ IF run.i > 2
       THEN /\ run' = NoRun
            /\ arLen' = run.totalSize
            /\ arCap' = run.totalSize
            /\ arCurOffset' = sizeof_siArHeader
            /\ last' = Call("merge", <<>>, <<>>, SISWA_SUCCESS, 0)
            /\ UNCHANGED <<arData, arCompression, status, memcpyDir, calls, arrayOfArs>>
       ELSE IF run.k >= ManyCount(run)
       THEN /\ run' = [run EXCEPT !.i = @ + 1, !.k = 0]
            /\ UNCHANGED <<arData, arLen, arCap, arCompression, arCurOffset, status,
                           memcpyDir, calls, last, arrayOfArs>>
       ELSE LET k == IF run.i = 1 THEN run.k + 1 ELSE 0
                name == ManyName(k)
                res == si_hashtable_exists(run.ht, name)
                insert == InsertsName(run.i, 2)
            IN  IF res = SISWA_FAILURE /\ insert /\ HtFull(run.ht)
                THEN /\ status' = "hang"
                     /\ last' = Call("merge", name, <<>>, NULL, 0)
                     /\ UNCHANGED <<arData, arLen, arCap, arCompression, arCurOffset,
                                    memcpyDir, calls, arrayOfArs, run>>
                ELSE /\ run' = IF res # SISWA_FAILURE THEN [run EXCEPT !.k = @ + 1]
                               ELSE [run EXCEPT !.k = @ + 1,
                                                !.ht = IF insert THEN si_hashtable_set(@, name)
                                                       ELSE @,
                                                !.totalSize = @ + ManyEntrySize(k)]
                     /\ UNCHANGED <<arData, arLen, arCap, arCompression, arCurOffset, status,
                                    memcpyDir, calls, last, arrayOfArs>>

NextManyNames == MergeStep
SpecManyNames == InitManyNames /\ [][NextManyNames]_vars

\* ------------------------------------------------------------------ linker
\* The linker handle (siArlFile is siArFile) is kept in the same variables;
\* as a value it is [data, len, cap, cur, st, ret].  A linker buffer is
\* h.cap bytes long (malloc(newCap), char tmp[128]).
ArlInBounds(h, off, n) == off >= 0 /\ n >= 0 /\ off + n <= h.cap

\* siswa_arlGetHeaderLength
siswa_arlGetHeaderLength(data) ==
    (sizeof_siArlHeader - sizeof_uint32_t) + Rd32(data, 4) * sizeof_uint32_t

\* The place of header->archiveSizes[archiveIndex] in the buffer.
ArchiveSizesAt(archiveIndex) ==
    (sizeof_siArlHeader - sizeof_uint32_t) + archiveIndex * sizeof_uint32_t

\* The four bytes bs of a uint32 after += delta (-= for a negative delta),
\* modulo 2^32, byte by byte with carry.
RECURSIVE AddToBytes(_, _, _)
AddToBytes(bs, k, carry) ==
    IF k > Len(bs) THEN <<>>
    ELSE LET t == bs[k] + carry IN
         <<t % 256>> \o AddToBytes(bs, k + 1, (t - (t % 256)) \div 256)

AddTo32(data, off, delta) ==
    WriteBytes(data, off, AddToBytes(Bytes(data, off, sizeof_uint32_t), 1, delta))

RECURSIVE Zeros(_)
Zeros(n) == IF n = 0 THEN <<>> ELSE <<0>> \o Zeros(n - 1)

\* siswa_arlCreateArlContentEx(buffer, capacity, archiveCount)
siswa_arlCreateArlContentEx(buffer, capacity, archiveCount) ==
    LET length == (sizeof_siArlHeader - sizeof_uint32_t) + archiveCount * sizeof_uint32_t
        h == [data |-> WriteBytes(buffer, 0,
                           Le32(SISWA_IDENTIFIER_ARL2) \o Le32(archiveCount)
                               \o Zeros(archiveCount * sizeof_uint32_t)),
              len |-> length, cap |-> capacity, cur |-> length,
              st |-> "ok", ret |-> SISWA_SUCCESS]
    IN  IF ~(capacity >= length) \/ archiveCount = 0
        THEN [h EXCEPT !.data = buffer, !.st = "aborted"]
        ELSE h

\* siswa_arlCreateArlContent(capacity, archiveCount): malloc(newCap)
siswa_arlCreateArlContent(capacity, archiveCount) ==
    siswa_arlCreateArlContentEx(
        FreshBuffer,
        capacity + (sizeof_siArlHeader - sizeof_uint32_t) + archiveCount * sizeof_uint32_t,
        archiveCount)

\* siswa_arlEntryPoll on (data, len, cur): entry->len is the byte at cur.
ArlPollStep(data, len, cur) ==
    IF cur >= len
    THEN [st |-> "ok", entry |-> NULL, cur |-> siswa_arlGetHeaderLength(data)]
    ELSE IF ~ReadOk(data, cur, sizeof_uint8_t)
         THEN [st |-> "ub", entry |-> NULL, cur |-> cur]
    ELSE [st |-> "ok", entry |-> cur, cur |-> cur + At(data, cur) + 1]

\* *name == *entry->string && strncmp(name + 1, entry->string + 1, nameLen - 1) == 0
\* The stored string has no terminator: the bytes behind it are compared too.
ArlNameMatches(data, e, name) ==
    LET entryName == e + sizeof_uint8_t IN
    IF ~ReadOk(data, entryName, 1) THEN "ub"
    ELSE IF Len(name) = 0
         THEN IF At(data, entryName) # 0 THEN "ne" ELSE "ub"
    ELSE IF name[1] # At(data, entryName) THEN "ne"
    ELSE strncmp(name, 2, data, entryName + 1, Len(name) - 1)

\* The loop of siswa_arlEntryFindEx.
RECURSIVE ArlFindWalk(_, _, _, _)
ArlFindWalk(data, len, cur, name) ==
    LET p == ArlPollStep(data, len, cur) IN
    IF p.st # "ok" THEN [st |-> p.st, entry |-> NULL]
    ELSE IF p.entry = NULL THEN [st |-> "ok", entry |-> NULL]
    ELSE LET m == ArlNameMatches(data, p.entry, name) IN
         IF m = "ub" THEN [st |-> "ub", entry |-> NULL]
         ELSE IF m = "eq" THEN [st |-> "ok", entry |-> p.entry]
         ELSE ArlFindWalk(data, len, p.cur, name)

\* siswa_arlEntryFindEx: arFile.curOffset = siswa_arlGetHeaderLength(arFile)
siswa_arlEntryFindEx(data, len, name) ==
    ArlFindWalk(data, len, siswa_arlGetHeaderLength(data), name)

\* The duplicate scan of siswa_arlEntryAddEx over tmpArFile = *arlFile.
RECURSIVE ArlAddWalk(_, _, _, _, _)
ArlAddWalk(data, len, cur, offset, name) ==
    LET p == ArlPollStep(data, len, cur) IN
    IF p.st # "ok" THEN [st |-> p.st, dup |-> FALSE, offset |-> offset]
    ELSE IF p.entry = NULL THEN [st |-> "ok", dup |-> FALSE, offset |-> offset]
    ELSE LET m == ArlNameMatches(data, p.entry, name) IN
         IF m = "ub" THEN [st |-> "ub", dup |-> FALSE, offset |-> p.cur]
         ELSE IF m = "eq" THEN [st |-> "ok", dup |-> TRUE, offset |-> p.cur]
         ELSE ArlAddWalk(data, len, p.cur, p.cur, name)

\* header->archiveSizes[archiveIndex] += sizeof(siArEntry) + nameLen + 1
ArlAddAccounts(nameLen) == sizeof_siArEntry + nameLen + 1
\* header->archiveSizes[archiveIndex] -= sizeof(uint8_t) + nameLen
ArlRemoveAccounts(nameLen) == sizeof_uint8_t + nameLen

\* siswa_arlEntryAddEx(&h, name, Len(name), archiveIndex)
siswa_arlEntryAddEx(h, name, archiveIndex) ==
    LET nameLen == Len(name)
        w == ArlAddWalk(h.data, h.len, h.cur, siswa_arlGetHeaderLength(h.data), name)
        offset == w.offset
    IN  IF ~(archiveIndex < Rd32(h.data, 4)) THEN [h EXCEPT !.st = "aborted"]
        ELSE IF w.st # "ok" THEN [h EXCEPT !.st = w.st]
        ELSE IF w.dup THEN [h EXCEPT !.ret = SISWA_FAILURE]
        ELSE IF ~(offset + sizeof_uint8_t + nameLen < h.cap) THEN [h EXCEPT !.st = "aborted"]
        ELSE [h EXCEPT
                !.data = AddTo32(WriteBytes(h.data, offset, <<nameLen>> \o name),
                                 ArchiveSizesAt(archiveIndex), ArlAddAccounts(nameLen)),
                !.len = h.len + sizeof_uint8_t + nameLen,
                !.ret = SISWA_SUCCESS]

\* siswa_arlEntryRemoveEx(&h, name, Len(name), archiveIndex)
siswa_arlEntryRemoveEx(h, name, archiveIndex, dir) ==
    LET nameLen == Len(name)
        f == siswa_arlEntryFindEx(h.data, h.len, name)
        offset == f.entry
        newLen == h.len - (sizeof_uint8_t + nameLen)
        n == newLen - offset
    IN  IF ~(archiveIndex < Rd32(h.data, 4)) THEN [h EXCEPT !.st = "aborted"]
        ELSE IF f.st # "ok" THEN [h EXCEPT !.st = f.st]
        ELSE IF f.entry = NULL THEN [h EXCEPT !.ret = SISWA_FAILURE]
        ELSE IF n < 0 \/ ~ArlInBounds(h, offset + sizeof_uint8_t + nameLen, n)
             THEN [h EXCEPT !.st = "ub"]
        ELSE [h EXCEPT
                !.data = AddTo32(Memcpy(h.data, offset, offset + sizeof_uint8_t + nameLen, n, dir),
                                 ArchiveSizesAt(archiveIndex), 0 - ArlRemoveAccounts(nameLen)),
                !.len = newLen,
                !.ret = SISWA_SUCCESS]

\* siswa_arlEntryUpdateEx(&h, oldName, Len(oldName), newName, Len(newName), archiveIndex)
siswa_arlEntryUpdateEx(h, oldName, newName, archiveIndex, dir) ==
    LET newNameLen == Len(newName)
        f == siswa_arlEntryFindEx(h.data, h.len, oldName)
        offset == f.entry
        oldSize == sizeof_uint8_t + At(h.data, offset)
        newSize == sizeof_uint8_t + newNameLen
        n == h.len - offset - oldSize
        \* entry->len = newNameLen
        d1 == WriteBytes(h.data, offset, <<newNameLen>>)
        d2 == Memcpy(d1, offset + newSize, offset + oldSize, n, dir)
        d3 == WriteBytes(d2, offset + 1, newName)
    IN  IF ~(archiveIndex < Rd32(h.data, 4)) THEN [h EXCEPT !.st = "aborted"]
        ELSE IF f.st # "ok" THEN [h EXCEPT !.st = f.st]
        ELSE IF f.entry = NULL THEN [h EXCEPT !.ret = SISWA_FAILURE]
        ELSE IF ~(offset + newSize < h.cap) THEN [h EXCEPT !.st = "aborted"]
        ELSE IF n < 0 \/ ~ArlInBounds(h, offset + oldSize, n)
                  \/ ~ArlInBounds(h, offset + newSize, n)
             THEN [h EXCEPT !.st = "ub"]
        ELSE [h EXCEPT
                !.data = AddTo32(d3, ArchiveSizesAt(archiveIndex), newSize - oldSize),
                !.len = h.len - (oldSize - newSize),
                !.ret = SISWA_SUCCESS]

\* The handle in the variables as a value, and a call's result put back.
Handle ==
    [data |-> arData, len |-> arLen, cap |-> arCap, cur |-> arCurOffset,
     st |-> "ok", ret |-> SISWA_SUCCESS]

Commit(h, op, name, data, index) ==
    IF h.st # "ok" THEN Stop(h.st, op, name, data, index)
    ELSE IF h.ret # SISWA_SUCCESS THEN Return(op, name, data, h.ret, index)
    ELSE /\ arData' = h.data
         /\ arLen' = h.len
         /\ arCap' = h.cap
         /\ arCurOffset' = h.cur
         /\ last' = Call(op, name, data, h.ret, index)
         /\ calls' = calls + 1
         /\ UNCHANGED <<arCompression, status, memcpyDir, arrayOfArs, run>>

\* The calls on the linker handle; last.offset holds the archive index.
ArlAdd ==
    /\ status = "ok"
    /\ calls < MaxArlCalls
    /\ \E name \in Names, archiveIndex \in 0 .. ArchiveCount :
          Commit(siswa_arlEntryAddEx(Handle, name, archiveIndex),
                 "arladd", name, <<>>, archiveIndex)

ArlRemove ==
    /\ status = "ok"
    /\ calls < MaxArlCalls
    /\ \E name \in Names, archiveIndex \in 0 .. ArchiveCount :
          Commit(siswa_arlEntryRemoveEx(Handle, name, archiveIndex, memcpyDir),
                 "arlremove", name, <<>>, archiveIndex)

ArlUpdate ==
    /\ status = "ok"
    /\ calls < MaxArlCalls
    /\ \E oldName \in Names, newName \in NewNames, archiveIndex \in 0 .. ArchiveCount :
          Commit(siswa_arlEntryUpdateEx(Handle, oldName, newName, archiveIndex, memcpyDir),
                 "arlupdate", oldName, newName, archiveIndex)

\* siswa_arlCreateArlContent(ArlCap, ArchiveCount)
InitArl ==
    /\ LET h == siswa_arlCreateArlContent(ArlCap, ArchiveCount) IN
       /\ arData = h.data
       /\ arLen = h.len
       /\ arCap = h.cap
       /\ arCurOffset = h.cur
    /\ arCompression = SISWA_COMPRESSION_NONE
    /\ status = "ok"
    /\ memcpyDir \in MemcpyDirs
    /\ calls = 0
    /\ last = NoCall
    /\ arrayOfArs = <<>>
    /\ run = NoRun

NextArl == ArlAdd \/ ArlRemove \/ ArlUpdate
SpecArl == InitArl /\ [][NextArl]_vars

\* ------------------------------------------------- linker over a buffer
\* siswa_arlMakeBufferEx(data, len, capacity) over the bytes image.
siswa_arlMakeBufferEx(image, capacity) ==
    [data |-> [j \in 1 .. ArPhys |-> IF j <= Len(image) THEN image[j] ELSE Uninit],
     len |-> Len(image), cap |-> capacity, cur |-> sizeof_siArHeader,
     compression |-> IF SubSeq(image, 1, 4) = IdentifierXCompression
                     THEN SISWA_COMPRESSION_X ELSE SISWA_COMPRESSION_NONE,
     st |-> IF ~(Len(image) <= capacity) THEN "aborted"
            ELSE IF SubSeq(image, 1, 4) # IdentifierXCompression
                     /\ SubSeq(image, 1, 4) # Le32(SISWA_IDENTIFIER_ARL2) THEN "aborted"
            ELSE "ok"]

\* siswa_arlEntryAdd(&h, ns[k], archiveIndex) for k, k + 1, ... in turn.
RECURSIVE ArlAddAll(_, _, _, _)
ArlAddAll(h, ns, archiveIndex, k) ==
    IF k > Len(ns) \/ h.st # "ok" THEN h
    ELSE ArlAddAll(siswa_arlEntryAddEx(h, ns[k], archiveIndex), ns, archiveIndex, k + 1)

\* The bytes of a linker file as the library writes it: archiveCount
\* archives, the names ns added under archiveIndex.
ArlImage(archiveCount, ns, archiveIndex) ==
    LET h == ArlAddAll(siswa_arlCreateArlContent(ArlCap, archiveCount), ns, archiveIndex, 1)
    IN  SubSeq(h.data, 1, h.len)

\* siswa_arlMakeBuffer(data, len) over a linker file.
InitArlMade ==
    /\ \E archiveCount \in 1 .. (ArchiveCount + 1), ns \in NameSeqs :
       \E archiveIndex \in 0 .. (archiveCount - 1) :
          LET image == ArlImage(archiveCount, ns, archiveIndex)
              h == siswa_arlMakeBufferEx(image, Len(image))
          IN  /\ h.st = "ok"
              /\ arData = h.data
              /\ arLen = h.len
              /\ arCap = h.cap
              /\ arCurOffset = h.cur
              /\ arCompression = h.compression
    /\ status = "ok"
    /\ memcpyDir = "move"
    /\ calls = 0
    /\ last = [NoCall EXCEPT !.op = "arlmake"]
    /\ arrayOfArs = <<>>
    /\ run = NoRun

\* siswa_arlEntryPoll(&arl)
siswa_arlEntryPoll ==
    /\ status = "ok"
    /\ LET p == ArlPollStep(arData, arLen, arCurOffset) IN
       IF p.st # "ok" THEN Stop(p.st, "arlpoll", <<>>, <<>>, 0)
       ELSE /\ arCurOffset' = p.cur
            /\ last' = Call("arlpoll", <<>>, <<>>, p.entry, 0)
            /\ UNCHANGED <<arData, arLen, arCap, arCompression, status, memcpyDir, calls,
                           arrayOfArs, run>>

\* The loop of siswa_arlGetEntryCount over its by-value copy of the handle.
RECURSIVE ArlCountWalk(_, _, _)
ArlCountWalk(data, len, cur) ==
    LET p == ArlPollStep(data, len, cur) IN
    IF p.st # "ok" THEN [st |-> p.st, count |-> 0]
    ELSE IF p.entry = NULL THEN [st |-> "ok", count |-> 0]
    ELSE LET r == ArlCountWalk(data, len, p.cur) IN
         [st |-> r.st, count |-> r.count + 1]

siswa_arlGetEntryCount ==
    /\ status = "ok"
    /\ LET c == ArlCountWalk(arData, arLen, arCurOffset) IN
       IF c.st # "ok" THEN Stop(c.st, "arlcount", <<>>, <<>>, 0)
       ELSE Return("arlcount", <<>>, <<>>, c.count, 0)

ArlPoll == siswa_arlEntryPoll
ArlGetEntryCount == siswa_arlGetEntryCount
NextArlMade == ArlPoll \/ ArlGetEntryCount
SpecArlMade == InitArlMade /\ [][NextArlMade]_vars

\* ------------------------------------------------------ linker from archives
\* while ((entry = siswa_arEntryPoll(&arFile))) siswa_arlEntryAdd(&arl, name, i);
\* over the archive (data, len) with its cursor at cur.  The value of
\* siswa_arlEntryAdd is not looked at.  Gives the linker and the cursor left.
RECURSIVE FromArWalk(_, _, _, _, _)
FromArWalk(h, data, len, cur, archiveIndex) ==
    IF h.st # "ok" THEN [arl |-> h, cur |-> cur]
    ELSE
    LET p == PollStep(data, len, cur) IN
    IF p.st # "ok" THEN [arl |-> [h EXCEPT !.st = p.st], cur |-> cur]
    ELSE IF p.entry = NULL THEN [arl |-> h, cur |-> p.cur]
    ELSE IF p.cur = cur THEN [arl |-> [h EXCEPT !.st = "hang"], cur |-> cur]
    ELSE FromArWalk(
             [siswa_arlEntryAddEx(h, StoredName(data, p.entry), archiveIndex)
                 EXCEPT !.ret = SISWA_SUCCESS],
             data, len, p.cur, archiveIndex)

\* siswa_arlCreateFromAr(arFile, outBuffer, capacity)
siswa_arlCreateFromAr(arFile, outBuffer, capacity) ==
    FromArWalk(siswa_arlCreateArlContentEx(outBuffer, capacity, 1),
               arFile.data, arFile.len, arFile.cur, 0).arl

\* The for loop of siswa_arlCreateFromArMul from archive i on; it polls the
\* caller's handles themselves.
RECURSIVE FromArMulWalk(_, _, _)
FromArMulWalk(h, ars, i) ==
    IF i > Len(ars) \/ h.st # "ok" THEN [arl |-> h, ars |-> ars]
    ELSE LET w == FromArWalk(h, ars[i].data, ars[i].len, ars[i].cur, i - 1) IN
         FromArMulWalk(w.arl, [ars EXCEPT ![i].cur = w.cur], i + 1)

\* siswa_arlCreateFromArMul(arrayOfArs, arrayLen, outBuffer, capacity)
siswa_arlCreateFromArMul(ars, outBuffer, capacity) ==
    FromArMulWalk(siswa_arlCreateArlContentEx(outBuffer, capacity, Len(ars)), ars, 1)

\* The linker built in a buffer of ArPhys bytes becomes the handle.
ArlFromAr ==
    /\ status = "ok"
    /\ \E i \in 1 .. Len(arrayOfArs) :
          LET h == siswa_arlCreateFromAr(arrayOfArs[i], FreshBuffer, ArPhys) IN
          IF h.st # "ok" THEN Stop(h.st, "fromar", <<>>, <<>>, i)
          ELSE /\ arData' = h.data
               /\ arLen' = h.len
               /\ arCap' = h.cap
               /\ arCurOffset' = h.cur
               /\ arCompression' = SISWA_COMPRESSION_NONE
               /\ last' = Call("fromar", <<>>, <<>>, SISWA_SUCCESS, i)
               /\ UNCHANGED <<status, memcpyDir, calls, arrayOfArs, run>>

ArlFromArMul ==
    /\ status = "ok"
    /\ Len(arrayOfArs) >= 1
    /\ LET r == siswa_arlCreateFromArMul(arrayOfArs, FreshBuffer, ArPhys) IN
       IF r.arl.st # "ok" THEN Stop(r.arl.st, "fromarmul", <<>>, <<>>, 0)
       ELSE /\ arData' = r.arl.data
            /\ arLen' = r.arl.len
            /\ arCap' = r.arl.cap
            /\ arCurOffset' = r.arl.cur
            /\ arCompression' = SISWA_COMPRESSION_NONE
            /\ arrayOfArs' = r.ars
            /\ last' = Call("fromarmul", <<>>, <<>>, SISWA_SUCCESS, 0)
            /\ UNCHANGED <<status, memcpyDir, calls, run>>

NextLink == PollInputs \/ ArlFromAr \/ ArlFromArMul
SpecLink == InitMany /\ [][NextLink]_vars

\* ----------------------------------------------------------- decompression
SegsFields == (0 .. MaxField) \cup ((65535 - MaxField) .. 65535)

\* Big-endian fields, as siswa_swap16 / siswa_swap32 / siswa_swap64 give them
\* on a little-endian host.
Be16(data, off) == At(data, off) * 256 + At(data, off + 1)
Be32(data, off) == Be16(data, off) * 65536 + Be16(data, off + 2)
Be64(data, off) == Be32(data, off) * 65536 * 65536 + Be32(data, off + 4)

Be16Bytes(v) == << (v \div 256) % 256, v % 256 >>
Be32Bytes(v) == Be16Bytes(v \div 65536) \o Be16Bytes(v % 65536)

\* size += (size == 0) * 0xFFFF
SegsSize(size0) == size0 + (IF size0 = 0 THEN 1 ELSE 0) * 65535

\* The for loop of siswa_arlDecompressSegs from entry k (0-based) on.  The
\* output buffer out is capacity bytes long, the compressed buffer h.cap.
RECURSIVE SegsWalk(_, _, _, _, _, _, _)
SegsWalk(h, out, capacity, chunks, k, curOutOffset, leftCapacity) ==
    IF k >= chunks THEN [st |-> "ok", out |-> out]
    ELSE
    LET entry == sizeof_siSegsHeader + k * sizeof_siSegsEntry IN
    IF ~ArlInBounds(h, entry, sizeof_siSegsEntry) \/ ~ReadOk(h.data, entry, sizeof_siSegsEntry)
    THEN [st |-> "ub", out |-> out]
    ELSE
    LET baseOffset == sizeof_siSegsHeader + chunks * sizeof_siSegsEntry
        zSize == Be16(h.data, entry)
        size0 == Be16(h.data, entry + 2)
        \* offset -= 1: below 0 it wraps to 0xFFFFFFFF
        offset0 == Be32(h.data, entry + 4) - 1
        offset == IF k = 0 /\ offset0 = 0 THEN baseOffset ELSE offset0
        size == SegsSize(size0)
    IN  IF size = zSize
        THEN IF offset < 0 \/ ~ArlInBounds(h, offset, size)
                  \/ curOutOffset + size > capacity
             THEN [st |-> "ub", out |-> out]
             ELSE SegsWalk(h, WriteBytes(out, curOutOffset, Bytes(h.data, offset, size)),
                           capacity, chunks, k + 1, curOutOffset + size + 1,
                           leftCapacity - size)
        \* siswa_decompressDeflate(curDataOffset + offset, zSize, curOutOffset,
        \* leftCapacity): the files here hold stored chunks only
        ELSE [st |-> "inflate", out |-> out]

\* siswa_arlDecompressSegs(&h, out, capacity, freeCompData) with out a buffer
\* of capacity bytes nothing was written to.
siswa_arlDecompressSegs(h, compression, capacity) ==
    IF compression # SISWA_COMPRESSION_SEGS THEN [h EXCEPT !.st = "aborted"]
    ELSE IF ~ArlInBounds(h, 0, sizeof_siSegsHeader) \/ ~ReadOk(h.data, 0, sizeof_siSegsHeader)
    THEN [h EXCEPT !.st = "ub"]
    ELSE
    LET chunks == Be16(h.data, 6)
        fullSize == Be32(h.data, 8)
        w == SegsWalk(h, FreshBuffer, capacity, chunks, 0, 0, capacity)
    IN  IF ~(capacity >= fullSize) THEN [h EXCEPT !.st = "aborted"]
        ELSE IF w.st # "ok" THEN [h EXCEPT !.st = w.st]
        ELSE [h EXCEPT !.data = w.out, !.len = fullSize, !.cap = capacity]

\* The while loop of siswa_arlDecompressXComp, curDataOffset at cur.
RECURSIVE XCompWalk(_, _, _, _, _)
XCompWalk(h, out, capacity, uncompBlockSize, cur) ==
    IF ~ArlInBounds(h, cur, 5) \/ ~ReadOk(h.data, cur, 5) THEN [st |-> "ub", out |-> out]
    ELSE IF At(h.data, cur + 4) = 0 THEN [st |-> "ok", out |-> out]
    ELSE IF ~ArlInBounds(h, cur + 5, 2) \/ ~ReadOk(h.data, cur + 5, 2)
    THEN [st |-> "ub", out |-> out]
    ELSE
    LET compressedBlockSize == Be32(h.data, cur)
        uncompressedBlockSize == Be16(h.data, cur + 5)
        block == cur + 5 + 20
    IN  IF uncompressedBlockSize = uncompBlockSize
        THEN IF ~ArlInBounds(h, block, uncompressedBlockSize)
                  \/ uncompressedBlockSize > capacity
             THEN [st |-> "ub", out |-> out]
             ELSE XCompWalk(h, WriteBytes(out, 0, Bytes(h.data, block, uncompressedBlockSize)),
                            capacity, uncompBlockSize, block + compressedBlockSize)
        ELSE XCompWalk(h, out, capacity, uncompBlockSize, block + compressedBlockSize)

\* siswa_arlDecompressXComp(&h, out, capacity, freeCompData)
siswa_arlDecompressXComp(h, compression, capacity) ==
    IF compression # SISWA_COMPRESSION_X THEN [h EXCEPT !.st = "aborted"]
    ELSE IF ~ArlInBounds(h, 0, sizeof_siXCompHeader) \/ ~ReadOk(h.data, 0, sizeof_siXCompHeader)
    THEN [h EXCEPT !.st = "ub"]
    ELSE
    LET uncompBlockSize == Be32(h.data, 40)
        fullSize == Be64(h.data, 24)
        w == XCompWalk(h, FreshBuffer, capacity, uncompBlockSize, sizeof_siXCompHeader)
    IN  IF w.st # "ok" THEN [h EXCEPT !.st = w.st]
        ELSE [h EXCEPT !.data = w.out, !.len = fullSize, !.cap = capacity]

\* siswa_arGetDecompressedSize
siswa_arGetDecompressedSize(h, compression) ==
    IF compression = SISWA_COMPRESSION_NONE THEN h.len
    ELSE IF compression = SISWA_COMPRESSION_X THEN Be64(h.data, 24)
    ELSE Be32(h.data, 8)

\* A decompression call put back into the handle: data = out, len, cap,
\* compression = SISWA_COMPRESSION_NONE; last.offset holds the capacity.
Rebind(h, op, capacity) ==
    IF h.st # "ok" THEN Stop(h.st, op, <<>>, <<>>, capacity)
    ELSE /\ arData' = h.data
         /\ arLen' = h.len
         /\ arCap' = h.cap
         /\ arCompression' = SISWA_COMPRESSION_NONE
         /\ last' = Call(op, <<>>, <<>>, SISWA_SUCCESS, capacity)
         /\ UNCHANGED <<arCurOffset, status, memcpyDir, calls, arrayOfArs, run>>

\* The output buffers the caller passes: malloc(size + slack).
Capacities ==
    { siswa_arGetDecompressedSize(Handle, arCompression) + slack : slack \in 0 .. MaxSlack }

DecompressSegs ==
    /\ status = "ok"
    /\ \E capacity \in Capacities :
          Rebind(siswa_arlDecompressSegs(Handle, arCompression, capacity), "segs", capacity)

DecompressXComp ==
    /\ status = "ok"
    /\ \E capacity \in Capacities :
          Rebind(siswa_arlDecompressXComp(Handle, arCompression, capacity), "xcomp", capacity)

\* siswa_arlDecompress: the switch over arl->compression.
Decompress ==
    /\ status = "ok"
    /\ \E capacity \in Capacities :
          IF arCompression = SISWA_COMPRESSION_NONE
          THEN Return("decompress", <<>>, <<>>, SISWA_SUCCESS, capacity)
          ELSE IF arCompression = SISWA_COMPRESSION_SEGS
          THEN Rebind(siswa_arlDecompressSegs(Handle, arCompression, capacity),
                      "decompress", capacity)
          ELSE Rebind(siswa_arlDecompressXComp(Handle, arCompression, capacity),
                      "decompress", capacity)

RECURSIVE Flatten(_, _)
Flatten(ss, k) == IF k > Len(ss) THEN <<>> ELSE ss[k] \o Flatten(ss, k + 1)

\* Byte j of chunk k of the SEGS files.
ChunkByte(k, j) == 40 + 10 * k + j
ChunkBytes(k, size) == [j \in 1 .. size |-> ChunkByte(k, j)]

RECURSIVE SumTo(_, _)
SumTo(sizes, k) == IF k = 0 THEN 0 ELSE sizes[k] + SumTo(sizes, k - 1)

\* A SEGS file of stored chunks with the uncompressed sizes of the sequence
\* sizes: header, chunk table, chunk data.  The first chunk has offset 1 (the
\* bytes behind the table), the others their place in the file plus 1.
SegsImage(sizes) ==
    LET chunks == Len(sizes)
        baseOffset == sizeof_siSegsHeader + chunks * sizeof_siSegsEntry
        fullSize == SumTo(sizes, chunks)
    IN  Le32(SISWA_IDENTIFIER_SEGS) \o <<0, 0>> \o Be16Bytes(chunks)
            \o Be32Bytes(fullSize) \o Be32Bytes(fullSize)
            \o Flatten([k \in 1 .. chunks |->
                           Be16Bytes(sizes[k]) \o Be16Bytes(sizes[k])
                               \o Be32Bytes(IF k = 1 THEN 1
                                            ELSE baseOffset + SumTo(sizes, k - 1) + 1)], 1)
            \o Flatten([k \in 1 .. chunks |-> ChunkBytes(k, sizes[k])], 1)

SegsImages ==
    { SegsImage(sizes) :
        sizes \in UNION { [1 .. c -> 1 .. MaxChunkSize] : c \in 1 .. MaxChunks } }

\* An XCompression file: the header with uncompressedSize = size and
\* uncompressedBlockSize = size, blocks number of whole blocks, the end marker.
XCompImage(size, blocks) ==
    LET block == Be32Bytes(size) \o <<1>> \o Be16Bytes(size) \o Zeros(18)
                     \o ChunkBytes(0, size)
    IN  IdentifierXCompression \o Zeros(20) \o Zeros(4) \o Be32Bytes(size)
            \o Zeros(8) \o Be32Bytes(size) \o Be32Bytes(size)
            \o Flatten([k \in 1 .. blocks |-> block], 1)
            \o Zeros(5)

XCompImages == { XCompImage(size, blocks) : size \in 1 .. MaxChunkSize, blocks \in 0 .. 1 }

\* siswa_arMake over a SEGS file, an XCompression file or a plain archive.
InitDecompress ==
    /\ \E image \in SegsImages \cup XCompImages \cup PollImages :
          siswa_arMakeBufferEx(image, Len(image))
    /\ status = "ok"
    /\ memcpyDir = "move"
    /\ calls = 0
    /\ last = [NoCall EXCEPT !.op = "make"]
    /\ arrayOfArs = <<>>
    /\ run = NoRun

\* The sizes of one chunk entry as the loop of siswa_arlDecompressSegs
\* takes them: a SEGS file of one entry with the stored fields zSize and
\* size, and the locals behind size += (size == 0) * 0xFFFF.
SegsEntryImage(zSize, size) ==
    Le32(SISWA_IDENTIFIER_SEGS) \o <<0, 0>> \o Be16Bytes(1)
        \o Be32Bytes(size) \o Be32Bytes(zSize)
        \o Be16Bytes(zSize) \o Be16Bytes(size) \o Be32Bytes(1)

InitSegsEntry ==
    /\ \E zSize \in SegsFields, size \in SegsFields :
          siswa_arMakeBufferEx(SegsEntryImage(zSize, size),
                               Len(SegsEntryImage(zSize, size)))
    /\ status = "ok"
    /\ memcpyDir = "move"
    /\ calls = 0
    /\ last = [NoCall EXCEPT !.op = "make"]
    /\ arrayOfArs = <<>>
    /\ run = NoRun

\* The head of the loop body for the first entry, up to the comparison
\* size == zSize.
SegsReadEntry ==
    /\ status = "ok"
    /\ arCompression = SISWA_COMPRESSION_SEGS
    /\ run = NoRun
    /\ LET entry == sizeof_siSegsHeader
           chunks == Be16(arData, 6)
           offset0 == Be32(arData, entry + 4) - 1
       IN  run' = [op |-> "segsentry",
                   size |-> SegsSize(Be16(arData, entry + 2)),
                   zSize |-> Be16(arData, entry),
                   offset |-> IF offset0 = 0
                              THEN sizeof_siSegsHeader + chunks * sizeof_siSegsEntry
                              ELSE offset0]
    /\ UNCHANGED <<arData, arLen, arCap, arCompression, arCurOffset, status, memcpyDir,
                   calls, last, arrayOfArs>>

NextSegsEntry == SegsReadEntry
SpecSegsEntry == InitSegsEntry /\ [][NextSegsEntry]_vars

NextDecompress == DecompressSegs \/ DecompressXComp \/ Decompress
SpecDecompress == InitDecompress /\ [][NextDecompress]_vars

\* ----------------------------------------------------------------- inflater
\* siswa_decompressDeflate(data, length, out, capacity) followed one case of
\* its switch, and inside BULK one decoded symbol, at a time.  run holds the
\* locals: state, last, s.bitcnt, out - offset, capacity, sym, len, and
\*   pc        the place inside the BULK loop: "top", "lit2", "len", "dist"
\*   tables    which tables s.lits / s.dsts hold: "fixed" or "dynamic"
\*   top       the end of the highest byte written to out so far
\* The bits of the stream are inputs: what a sinfl__get or a table lookup
\* gives is chosen freely among the values the tables can hold.  The stream
\* is followed by the eight bytes sinfl_refill may read behind it.
BitOr(a, b) == a + b - BitAnd(a, b)

RECURSIVE Pow2(_)
Pow2(n) == IF n = 0 THEN 1 ELSE 2 * Pow2(n - 1)

Max(a, b) == IF a >= b THEN a ELSE b

lbase ==
    << 3, 4, 5, 6, 7, 8, 9, 10, 11, 13, 15, 17, 19, 23, 27, 31, 35, 43, 51, 59,
       67, 83, 99, 115, 131, 163, 195, 227, 258, 0, 0 >>
lbits ==
    << 0, 0, 0, 0, 0, 0, 0, 0, 1, 1, 1, 1, 2, 2, 2, 2, 3, 3, 3, 3, 4, 4, 4, 4,
       5, 5, 5, 5, 0, 0, 0 >>
dbase ==
    << 1, 2, 3, 4, 5, 7, 9, 13, 17, 25, 33, 49, 65, 97, 129, 193, 257, 385, 513,
       769, 1025, 1537, 2049, 3073, 4097, 6145, 8193, 12289, 16385, 24577, 0, 0 >>
dbits ==
    << 0, 0, 0, 0, 1, 1, 2, 2, 3, 3, 4, 4, 5, 5, 6, 6, 7, 7, 8, 8, 9, 9, 10, 10,
       11, 11, 12, 12, 13, 13, 0, 0 >>

\* The bit reader as far as its assertions go: [st, bitcnt].
BitReader(bitcnt) == [st |-> "ok", bitcnt |-> bitcnt]

\* s->bitcnt |= 56
sinfl_refill(b) == IF b.st # "ok" THEN b ELSE [b EXCEPT !.bitcnt = BitOr(@, 56)]

\* assert(cnt >= 0 && cnt <= 56); assert(cnt <= s->bitcnt);
sinfl_peek(b, cnt) ==
    IF b.st # "ok" THEN b
    ELSE IF ~(cnt >= 0 /\ cnt <= 56) \/ ~(cnt <= b.bitcnt) THEN [b EXCEPT !.st = "aborted"]
    ELSE b

\* assert(cnt <= s->bitcnt); s->bitcnt -= cnt;
sinfl_eat(b, cnt) ==
    IF b.st # "ok" THEN b
    ELSE IF ~(cnt <= b.bitcnt) THEN [b EXCEPT !.st = "aborted"]
    ELSE [b EXCEPT !.bitcnt = @ - cnt]

sinfl__get(b, cnt) == sinfl_eat(sinfl_peek(b, cnt), cnt)

\* sinfl_decode(s, tbl, bit_len) for a symbol whose code is len bits long;
\* with len > bit_len the entry names a sub-table of sub_bits bits.
sinfl_decode(b, bit_len, len, sub_bits) ==
    IF len > bit_len
    THEN sinfl_eat(sinfl_peek(sinfl_eat(sinfl_peek(b, bit_len), bit_len), sub_bits),
                   len - bit_len)
    ELSE sinfl_eat(sinfl_peek(b, bit_len), len)

\* The code lengths of the FIXED case.
FixedLen(sym) ==
    IF sym <= 143 THEN 8 ELSE IF sym <= 255 THEN 9 ELSE IF sym <= 279 THEN 7 ELSE 8

\* The literal / length symbols and the distance symbols looked at.
LitSyms == {65, 200, 256, 257, 266, 275, 284, 285, 286}
DistSyms == {0, 1, 4, 29}

\* The code lengths a symbol can have in the tables, and the widths of the
\* sub-table a code of len bits can sit in: the narrowest and the widest
\* (maxlen is 15).
CodeLens(tables, fixed) == IF tables = "fixed" THEN {fixed} ELSE 1 .. 15
SubBits(len, bit_len) == IF len > bit_len THEN {len - bit_len, 15 - bit_len} ELSE {0}

\* The extra bits of a length or distance symbol: all zero or all one.
Extras(bits) == {0, Pow2(bits) - 1}

\* C27 mutant: the end of a block always goes back to HDR.
C27_AlwaysHdr(final) == "HDR"

\* if (last) return out - offset; state = HDR;
EndOfBlock(final) == IF final = 1 THEN "RET" ELSE "HDR"

\* The state the block type leads to; default: return (out - offset).
HdrNext(type) ==
    IF type = 0 THEN "STORED" ELSE IF type = 1 THEN "FIXED"
    ELSE IF type = 2 THEN "DYNAMIC" ELSE "RET"

\* Where the writes of a match copy end: len bytes from pos, back-distance
\* offs, out = pos + len.
MatchEnd(pos, len, offs, capacity) ==
    LET out == pos + len
        n16 == Max(3, (len + 15) \div 16)
        n8 == Max(3, (len + 7) \div 8)
    IN  IF capacity - out >= 16 * 3
        THEN IF offs >= 16 THEN pos + 16 * n16
             ELSE IF offs >= 8 THEN pos + 8 * n8
             ELSE IF offs = 1 THEN pos + 8 * (n8 - 1) + 16
             ELSE pos + Max(3, len)
        ELSE pos + Max(3, len)

InitInflate ==
    /\ arData = FreshBuffer
    /\ arLen = 0
    /\ arCap = 0
    /\ arCompression = SISWA_COMPRESSION_NONE
    /\ arCurOffset = 0
    /\ status = "ok"
    /\ memcpyDir = "move"
    /\ calls = 0
    /\ last = [NoCall EXCEPT !.op = "make"]
    /\ arrayOfArs = <<>>
    /\ \E capacity \in 0 .. MaxOut :
          run = [op |-> "inflate", state |-> "HDR", pc |-> "top", last |-> 0,
                 bitcnt |-> 0, out |-> 0, capacity |-> capacity, sym |-> 0, len |-> 0,
                 tables |-> "none", top |-> 0, ret |-> 0]

\* The step ends in the locals r; a write behind out + capacity is undefined;
\* in state "RET" the function has returned r.ret.
Goto(r) ==
    /\ run' = IF r.state = "RET" THEN [r EXCEPT !.ret = r.out] ELSE r
    /\ status' = IF r.top > r.capacity THEN "ub" ELSE status
    /\ last' = IF r.state = "RET" /\ r.top <= r.capacity
               THEN Call("inflate", <<>>, <<>>, r.out, r.capacity) ELSE last
    /\ UNCHANGED <<arData, arLen, arCap, arCompression, arCurOffset, memcpyDir, calls,
                   arrayOfArs>>

\* An assertion of the bit reader failed, or the behaviour is undefined.
Fail(st) ==
    /\ status' = st
    /\ last' = Call("inflate", <<>>, <<>>, NULL, run.capacity)
    /\ UNCHANGED <<arData, arLen, arCap, arCompression, arCurOffset, memcpyDir, calls,
                   arrayOfArs, run>>

Inflating(state) == status = "ok" /\ run.op = "inflate" /\ run.state = state

\* case HDR
InflateHdr ==
    /\ Inflating("HDR")
    /\ \E lastBit \in 0 .. 1, type \in 0 .. 3 :
          LET b0 == sinfl_refill(BitReader(run.bitcnt))
              b == sinfl__get(sinfl__get(b0, 1), 2)
          IN  IF b.st # "ok" THEN Fail(b.st)
              ELSE Goto([run EXCEPT !.bitcnt = b.bitcnt,
                                    !.last = lastBit, !.sym = type,
                                    !.state = HdrNext(type)])

\* case STORED: len and nlen are read from the stream; nlenOk: len is the
\* complement of nlen; fits: len <= offsetEnd - s.bitptr.
InflateStored ==
    /\ Inflating("STORED")
    /\ \E len \in 0 .. (MaxOut + 1), nlenOk \in BOOLEAN, fits \in BOOLEAN :
          LET b == sinfl__get(sinfl__get(sinfl__get(BitReader(run.bitcnt),
                                                    BitAnd(run.bitcnt, 7)), 16), 16)
              r == [run EXCEPT !.bitcnt = 0]
          IN  IF b.st # "ok" THEN Fail(b.st)
              ELSE IF ~nlenOk \/ ~fits \/ len = 0 THEN Goto([r EXCEPT !.state = "RET"])
              ELSE Goto([r EXCEPT !.out = @ + len, !.top = Max(@, run.out + len),
                                  !.state = EndOfBlock(run.last)])

\* case FIXED
InflateFixed ==
    /\ Inflating("FIXED")
    /\ Goto([run EXCEPT !.tables = "fixed", !.state = "BULK", !.pc = "top"])

\* case DYNAMIC: the counts, then the loops that refill before every code.
\* Followed here: the head, and the last turn of the loop over the code
\* lengths, entered with s.bitcnt = 8k + low, decoding a code of len bits
\* and, for the symbols 16, 17, 18, repeat = 2, 3, 7 more bits.  overrun: the
\* repeat count runs over the end of lens[288 + 32].
InflateDynamic ==
    /\ Inflating("DYNAMIC")
    /\ \E low \in 0 .. 7, len \in 1 .. 7, repeat \in {0, 2, 3, 7}, overrun \in BOOLEAN :
          LET h0 == sinfl_refill(BitReader(run.bitcnt))
              h == sinfl__get(sinfl__get(sinfl__get(h0, 5), 5), 4)
              b0 == sinfl_refill(BitReader(low))
              b1 == sinfl_decode(b0, 7, len, 0)
              b2 == IF repeat = 0 THEN b1 ELSE sinfl__get(sinfl_refill(b1), repeat)
          IN  IF h.st # "ok" THEN Fail(h.st)
              ELSE IF b2.st # "ok" THEN Fail(b2.st)
              ELSE IF overrun /\ repeat # 0 THEN Fail("ub")
              ELSE Goto([run EXCEPT !.bitcnt = b2.bitcnt,
                                    !.tables = "dynamic", !.state = "BULK", !.pc = "top"])

\* What follows a decoded literal / length symbol; first: it is the first
\* symbol of the turn, whose literal is checked against capacityEnd.
Dispatch(r, sym, first) ==
    IF sym < 256
    THEN IF first /\ r.out >= r.capacity THEN [r EXCEPT !.sym = sym, !.state = "RET"]
         ELSE [r EXCEPT !.sym = sym, !.out = @ + 1, !.top = Max(@, r.out + 1),
                        !.pc = IF first THEN "lit2" ELSE "top"]
    ELSE IF sym = 256 THEN [r EXCEPT !.sym = sym, !.pc = "top", !.state = EndOfBlock(r.last)]
    ELSE IF sym >= 286 THEN [r EXCEPT !.sym = sym, !.state = "RET"]
    ELSE [r EXCEPT !.sym = sym - 257, !.pc = "len"]

\* case BULK, the head of a turn: sinfl_refill, the first sinfl_decode.
InflateBulk ==
    /\ Inflating("BULK")
    /\ run.pc = "top"
    /\ \E sym \in LitSyms :
       \E len \in CodeLens(run.tables, FixedLen(sym)) :
       \E sub_bits \in SubBits(len, 10) :
          LET b0 == sinfl_refill(BitReader(run.bitcnt))
              b == sinfl_decode(b0, 10, len, sub_bits)
          IN  IF b.st # "ok" THEN Fail(b.st)
              ELSE Goto(Dispatch([run EXCEPT !.bitcnt = b.bitcnt], sym, TRUE))

\* case BULK: the sinfl_decode behind a literal.
InflateSecond ==
    /\ Inflating("BULK")
    /\ run.pc = "lit2"
    /\ \E sym \in LitSyms :
       \E len \in CodeLens(run.tables, FixedLen(sym)) :
       \E sub_bits \in SubBits(len, 10) :
          LET b == sinfl_decode(BitReader(run.bitcnt), 10, len, sub_bits)
          IN  IF b.st # "ok" THEN Fail(b.st)
              ELSE Goto(Dispatch([run EXCEPT !.bitcnt = b.bitcnt], sym, FALSE))

\* case BULK: len = sinfl__get(&s, lbits[sym]) + lbase[sym]
InflateLength ==
    /\ Inflating("BULK")
    /\ run.pc = "len"
    /\ \E extra \in Extras(lbits[run.sym + 1]) :
          LET b == sinfl__get(BitReader(run.bitcnt), lbits[run.sym + 1])
          IN  IF b.st # "ok" THEN Fail(b.st)
              ELSE Goto([run EXCEPT !.bitcnt = b.bitcnt, !.len = extra + lbase[run.sym + 1],
                                    !.pc = "dist"])

\* case BULK: dsym, offs, and the match copy.
InflateMatch ==
    /\ Inflating("BULK")
    /\ run.pc = "dist"
    /\ \E dsym \in DistSyms :
       \E len \in CodeLens(run.tables, 5) :
       \E sub_bits \in SubBits(len, 8) :
       \E extra \in Extras(dbits[dsym + 1]) :
          LET b == sinfl__get(sinfl_decode(BitReader(run.bitcnt), 8, len, sub_bits),
                              dbits[dsym + 1])
              offs == extra + dbase[dsym + 1]
              r == [run EXCEPT !.bitcnt = b.bitcnt]
          IN  IF b.st # "ok" THEN Fail(b.st)
              ELSE IF offs > run.out THEN Goto([r EXCEPT !.state = "RET"])
              ELSE Goto([r EXCEPT !.out = @ + run.len,
                                  !.top = Max(@, MatchEnd(run.out, run.len, offs,
                                                          run.capacity)),
                                  !.len = 0, !.pc = "top"])

NextInflate ==
    \/ InflateHdr \/ InflateStored \/ InflateFixed \/ InflateDynamic
    \/ InflateBulk \/ InflateSecond \/ InflateLength \/ InflateMatch
SpecInflate == InitInflate /\ [][NextInflate]_vars

\* --------------------------------------------------------------- match copy
\* The copy of one match (l.1797-1877) over the bytes of the output buffer:
\* pos bytes are out already, the match is len bytes from offs bytes back.
MaxPos == 17
MaxMatch == 50

\* 3 is the shortest match (lbase[0]); the longest followed here is MaxMatch.
MatchLens == lbase[1] .. MaxMatch

\* capacityEnd - out after out = out + len: behind the buffer, none, one short
\* of the fast paths, and enough for them.
Headrooms == {0 - 1, 0, 16 * 3 - 1, 16 * 3}

\* The output buffer, out[i] at index i + 1: pos bytes written, the rest never
\* written.
MatchBuffer(pos, capacity) ==
    [i \in 1 .. capacity |-> IF i <= pos THEN i ELSE Uninit]

\* The bytes at dst .. dst + Len(bytes) - 1 become bytes.
StoreChunk(out, dst, bytes) ==
    SubSeq(out, 1, dst) \o bytes \o SubSeq(out, dst + Len(bytes) + 1, Len(out))

\* n bytes loaded from src, then stored at dst.
CopyChunk(out, dst, src, n) ==
    StoreChunk(out, dst, SubSeq(out, src + 1, src + n))

\* sinfl_char16_ld(*src); sinfl_char16_str(*dst, n); *dst += 16; *src += 16;
sinfl_copy128(m) ==
    [m EXCEPT !.out = CopyChunk(m.out, m.dst, m.src, 16), !.dst = @ + 16, !.src = @ + 16]

\* sinfl_read64(dst) = sinfl_read64(src); dst += 8; src += 8
sinfl_copy64(m) ==
    [m EXCEPT !.out = CopyChunk(m.out, m.dst, m.src, 8), !.dst = @ + 8, !.src = @ + 8]

\* sinfl_char16_str(dst, w); return dst + 8;
sinfl_write128(m) ==
    [m EXCEPT !.out = StoreChunk(m.out, m.dst, [i \in 1 .. 16 |-> m.w]), !.dst = @ + 8]

\* *dst++ = *src++;
ByteCopy(m) ==
    [m EXCEPT !.out = CopyChunk(m.out, m.dst, m.src, 1), !.dst = @ + 1, !.src = @ + 1]

\* C29 mutant: the fast paths always take the word copy.
C29_AlwaysWord(offs) == "word"

\* if (offs >= 16) ... else if (offs >= 8) ... else if (offs == 1) ... else ...
FastPath(offs) ==
    IF offs >= 16 THEN "simd"
    ELSE IF offs >= 8 THEN "word"
    ELSE IF offs = 1 THEN "rle"
    ELSE "byte"

\* if (capacityEnd - out >= 16 * 3) { the fast paths } else { byte by byte }
CopyPath(offs, headroom) ==
    IF headroom >= 16 * 3 THEN FastPath(offs) ELSE "tail"

\* The bytes one store of the path touches.
StoreWidth(path) ==
    IF path \in {"simd", "rle"} THEN 16 ELSE IF path = "word" THEN 8 ELSE 1

CopyOnce(m, path) ==
    IF path = "simd" THEN sinfl_copy128(m)
    ELSE IF path = "word" THEN sinfl_copy64(m)
    ELSE IF path = "rle" THEN sinfl_write128(m)
    ELSE ByteCopy(m)

\* copy; copy; do { copy } while (dst < out): k copies are done, end is out.
\* A store that leaves the buffer is undefined.
RECURSIVE MatchLoop(_, _, _, _)
MatchLoop(m, end, k, path) ==
    IF k >= 3 /\ m.dst >= end THEN m
    ELSE IF m.dst + StoreWidth(path) > m.capacity THEN [m EXCEPT !.st = "ub"]
    ELSE MatchLoop(CopyOnce(m, path), end, k + 1, path)

\* dst = out; src = out - offs; out = out + len; then the copy of the path.
MatchCopyOf(out, pos, offs, len, capacity) ==
    LET path == CopyPath(offs, capacity - (pos + len))
        m == [out |-> out, dst |-> pos, src |-> pos - offs, w |-> out[pos - offs + 1],
              capacity |-> capacity, st |-> "ok"]
    IN  [path |-> path, m |-> MatchLoop(m, pos + len, 0, path)]

InitMatch ==
    /\ arData = FreshBuffer
    /\ arLen = 0
    /\ arCap = 0
    /\ arCompression = SISWA_COMPRESSION_NONE
    /\ arCurOffset = 0
    /\ status = "ok"
    /\ memcpyDir = "move"
    /\ calls = 0
    /\ last = [NoCall EXCEPT !.op = "make"]
    /\ arrayOfArs = <<>>
    /\ \E pos \in 1 .. MaxPos, len \in MatchLens, headroom \in Headrooms :
       \E offs \in 1 .. pos :
          run = [op |-> "match", state |-> "copy", pos |-> pos, offs |-> offs,
                 len |-> len, capacity |-> pos + len + headroom, path |-> "none",
                 dst |-> pos, out |-> MatchBuffer(pos, pos + len + headroom)]

MatchCopy ==
    /\ status = "ok"
    /\ run.op = "match"
    /\ run.state = "copy"
    /\ LET r == MatchCopyOf(run.out, run.pos, run.offs, run.len, run.capacity)
       IN  /\ run' = [run EXCEPT !.state = "done", !.path = r.path,
                                 !.dst = r.m.dst, !.out = r.m.out]
           /\ status' = r.m.st
    /\ UNCHANGED <<arData, arLen, arCap, arCompression, arCurOffset, memcpyDir,
                   calls, last, arrayOfArs>>

NextMatch == MatchCopy
SpecMatch == InitMatch /\ [][NextMatch]_vars

\* ------------------------------------------------------------------ claims
Added == last.op = "add" /\ status = "ok" /\ last.ret = SISWA_SUCCESS

\* C1 (as claimed): a successful add leaves every entry that was there
\* byte-identical and in order, and the new entry is the last one met when
\* iterating from the header end, wherever poll left the cursor.
C1_AddKeepsEntriesAndAppends ==
    [][ (Added' /\ Readable(arData, arLen)) =>
            LET old == Records(arData, arLen)
                new == Records(arData', arLen')
            IN  /\ Readable(arData', arLen')
                /\ Len(new) = Len(old) + 1
                /\ SubSeq(new, 1, Len(old)) = old
                /\ new[Len(new)] = NewEntryBytes(last'.name, last'.data) ]_vars

\* C2: a successful add grows len by exactly 20 + len(name) + 1 + len(payload)
\* and the bytes at the place it wrote are a record with that size, dataSize =
\* len(payload), offset = 20 + len(name) + 1, a zero filedate, then the name,
\* one NUL and the payload; cap and compression are unchanged.
C2_AddLengthAndRecord ==
    [][ Added' =>
            LET nl == Len(last'.name)
                pl == Len(last'.data)
                o == last'.offset
            IN  /\ arLen' = arLen + 20 + nl + 1 + pl
                /\ ReadOk(arData', o, 20 + nl + 1 + pl)
                /\ EntrySize(arData', o) = 20 + nl + 1 + pl
                /\ EntryDataSize(arData', o) = pl
                /\ EntryOffset(arData', o) = 20 + nl + 1
                /\ \A i \in 12 .. 19 : At(arData', o + i) = 0
                /\ Bytes(arData', o + 20, nl) = last'.name
                /\ At(arData', o + 20 + nl) = 0
                /\ Bytes(arData', o + 20 + nl + 1, pl) = last'.data
                /\ arCap' = arCap
                /\ arCompression' = arCompression ]_vars

\* C2 witness: an add of a two-byte name with a three-byte payload succeeded.
C2_Witness == Added /\ Len(last.name) = 2 /\ Len(last.data) = 3

\* C3 (as claimed): add of a name some entry already carries returns failure
\* and leaves the buffer and len unchanged, wherever the cursor is.
C3_AddDuplicateFails ==
    [][ (last'.op = "add" /\ Readable(arData, arLen)
            /\ Holding(arData, arLen, last'.name) # {}) =>
            /\ status' = "ok"
            /\ last'.ret = SISWA_FAILURE
            /\ arData' = arData
            /\ arLen' = arLen ]_vars

\* The call changed neither the buffer nor the handle.
Untouched ==
    UNCHANGED <<arData, arLen, arCap, arCompression, arCurOffset>>

\* C4 (as claimed): an add or update that gets past its name scan aborts
\* exactly when the length it would produce is >= cap.
C4_AbortsIffResultReachesCap ==
    [][ (last'.op \in {"add", "update"} /\ status' \in {"ok", "aborted"}
            /\ ~(status' = "ok" /\ last'.ret = SISWA_FAILURE)) =>
            LET newSize == 20 + Len(last'.name) + 1 + Len(last'.data)
                resulting ==
                    IF last'.op = "add" THEN arLen + newSize
                    ELSE arLen - EntrySize(arData, last'.offset) + newSize
            IN  (status' = "aborted") <=> (resulting >= arCap) ]_vars

\* C5 (as claimed): len <= cap in every state that create-empty and add /
\* remove / update calls that did not abort lead to.
C5_LenWithinCap == status = "ok" => arLen <= arCap

RECURSIVE SumSizes(_, _, _)
SumSizes(data, offs, k) ==
    IF k > Len(offs) THEN 0
    ELSE EntrySize(data, offs[k]) + SumSizes(data, offs, k + 1)

\* C6 (as claimed): after create-empty and add / remove / update calls the
\* archive has len >= 16, every record has offset = 20 + (length of its stored
\* name) + 1 and size = offset + dataSize, and the sizes sum to len - 16.
C6_Structure ==
    status = "ok" =>
        /\ arLen >= 16
        /\ Readable(arData, arLen)
        /\ LET offs == EntryOffsets(arData, arLen).offs IN
           /\ \A k \in 1 .. Len(offs) :
                /\ EntryOffset(arData, offs[k])
                       = 20 + Len(StoredName(arData, offs[k])) + 1
                /\ EntrySize(arData, offs[k])
                       = EntryOffset(arData, offs[k]) + EntryDataSize(arData, offs[k])
           /\ SumSizes(arData, offs, 1) = arLen - 16

\* The first entry in stored order whose stored name equals name, else NULL.
FirstHolding(data, len, name) ==
    LET h == Holding(data, len, name) IN
    IF h = {} THEN NULL ELSE CHOOSE e \in h : \A x \in h : e <= x

\* C7 (as claimed): find(name) returns the first entry whose stored name has
\* the same length and bytes as name, and absent when there is none.
C7_FindExactName ==
    (last.op = "find" /\ status = "ok" /\ Readable(arData, arLen)) =>
        last.ret = FirstHolding(arData, arLen, last.name)

\* C8 (as claimed): on an archive built by create-empty and adds, remove of an
\* entry's name succeeds, a following find of that name returns absent, and
\* len has shrunk by that entry's size.
C8_RemoveThenFind ==
    [][ (last'.op = "remove" /\ Holding(arData, arLen, last'.name) # {}) =>
            LET e == FirstHolding(arData, arLen, last'.name) IN
            /\ status' = "ok"
            /\ last'.ret = SISWA_SUCCESS
            /\ arLen' = arLen - EntrySize(arData, e)
            /\ siswa_arEntryFindEx(arData', arLen', arCurOffset', last'.name)
                   = [st |-> "ok", entry |-> NULL] ]_vars

\* s without its k-th element.
RemoveAt(s, k) == SubSeq(s, 1, k - 1) \o SubSeq(s, k + 1, Len(s))

\* The place of offset e in the sequence offs.
IndexOf(offs, e) == CHOOSE k \in 1 .. Len(offs) : offs[k] = e

\* C9 (as claimed): a successful remove(name) leaves exactly the other
\* entries, byte-identical, in order and without a gap; a remove of a name no
\* entry carries returns failure and changes nothing.
C9_RemoveCompacts ==
    [][ (last'.op = "remove" /\ Readable(arData, arLen)) =>
            LET e == FirstHolding(arData, arLen, last'.name)
                offs == EntryOffsets(arData, arLen).offs
            IN  /\ status' = "ok"
                /\ IF e = NULL
                   THEN last'.ret = SISWA_FAILURE /\ Untouched
                   ELSE /\ last'.ret = SISWA_SUCCESS
                        /\ Readable(arData', arLen')
                        /\ Records(arData', arLen')
                               = RemoveAt(Records(arData, arLen), IndexOf(offs, e))
                        /\ arLen' = arLen - EntrySize(arData, e) ]_vars

\* C10 (as claimed): with entries [a, b, c], update(b, payload) leaves the
\* records of a and c byte-identical and in order, find(b) then has dataSize =
\* len(payload) and those payload bytes, and len changes by len(payload) minus
\* the old payload size.
C10_UpdateKeepsNeighbours ==
    [][ (last'.op = "update" /\ Readable(arData, arLen)
            /\ Len(EntryOffsets(arData, arLen).offs) = 3
            /\ \A n \in Names : Cardinality(Holding(arData, arLen, n)) <= 1
            /\ StoredName(arData, EntryOffsets(arData, arLen).offs[2]) = last'.name) =>
            LET old == Records(arData, arLen)
                new == Records(arData', arLen')
                b == EntryOffsets(arData, arLen).offs[2]
                f == siswa_arEntryFindEx(arData', arLen', arCurOffset', last'.name)
            IN  /\ status' = "ok"
                /\ last'.ret = SISWA_SUCCESS
                /\ Readable(arData', arLen')
                /\ Len(new) = 3
                /\ new[1] = old[1]
                /\ new[3] = old[3]
                /\ f = [st |-> "ok", entry |-> b]
                /\ EntryDataSize(arData', b) = Len(last'.data)
                /\ Bytes(arData', b + EntryOffset(arData', b), Len(last'.data))
                       = last'.data
                /\ arLen' = arLen + Len(last'.data) - EntryDataSize(arData, b) ]_vars

\* C11: on a handle made over an archive of n entries, the k-th poll returns
\* the k-th entry in stored order for k <= n; poll n+1 returns none and puts
\* the cursor back at the header end; the poll after that returns the first
\* entry again (the sequence repeats with period n+1).
C11_PollSequence ==
    [][ last'.op = "poll" =>
            LET offs == EntryOffsets(arData, arLen).offs
                n == Len(offs)
                m == ((calls' - 1) % (n + 1)) + 1
            IN  /\ status' = "ok"
                /\ IF m <= n
                   THEN last'.ret = offs[m]
                   ELSE last'.ret = NULL /\ arCurOffset' = sizeof_siArHeader ]_vars

\* C11 witness: on an archive of two entries the fourth poll returned the
\* first entry again, after the third had returned none.
C11_Witness ==
    /\ last.op = "poll" /\ status = "ok" /\ calls = 4
    /\ Len(EntryOffsets(arData, arLen).offs) = 2
    /\ last.ret = sizeof_siArHeader
    /\ last.preCur = sizeof_siArHeader

\* C12 (as claimed): between calls the cursor lies in [header end, len], in
\* every state poll, add, remove and update calls lead to.
C12_CursorInRange ==
    status = "ok" => (sizeof_siArHeader <= arCurOffset /\ arCurOffset <= arLen)

\* C13 (as claimed): the entry count is the number of entries stored in the
\* archive wherever the handle's cursor is, and the call leaves the handle
\* and the buffer as they were.
C13_EntryCountTotal ==
    [][ (last'.op = "count" /\ Readable(arData, arLen)) =>
            /\ status' = "ok"
            /\ last'.ret = Len(EntryOffsets(arData, arLen).offs)
            /\ Untouched ]_vars

\* C14 (as claimed): an archive that create-empty and add / remove / update
\* calls produced can be polled into (name, payload) pairs, and create-empty
\* followed by one add per pair (unless the capacity check stops it) makes
\* every add succeed and gives the same bytes over [0, len).
C14_RoundTrip ==
    status = "ok" =>
        /\ Readable(arData, arLen)
        /\ PayloadsReadable(arData, arLen)
        /\ LET r == ReEmit(Pairs(arData, arLen)) IN
           \/ r.st = "aborted"
           \/ /\ r.st = "ok"
              /\ r.ret = SISWA_SUCCESS
              /\ r.len = arLen
              /\ Bytes(r.data, 0, arLen) = Bytes(arData, 0, arLen)

\* The stored names of an archive, in stored order.
NamesOf(ar) ==
    LET offs == EntryOffsets(ar.data, ar.len).offs IN
    [k \in 1 .. Len(offs) |-> StoredName(ar.data, offs[k])]

Range(f) == {f[x] : x \in DOMAIN f}

\* The records of archive i whose name occurs in no earlier archive.
Kept(ars, i) ==
    LET recs == Records(ars[i].data, ars[i].len)
        names == NamesOf(ars[i])
        earlier == UNION { Range(NamesOf(ars[j])) : j \in 1 .. (i - 1) }
    IN  [k \in 1 .. Len(recs) |-> IF names[k] \in earlier THEN <<>> ELSE <<recs[k]>>]

\* What the merge is to emit: by archive index, then stored order.
MergeExpected(ars) ==
    Flatten([i \in 1 .. Len(ars) |-> Flatten(Kept(ars, i), 1)], 1)

\* No archive holds the same name twice.
NoInnerDuplicates(ars) ==
    \A i \in 1 .. Len(ars) :
        \A k1, k2 \in 1 .. Len(NamesOf(ars[i])) :
            NamesOf(ars[i])[k1] = NamesOf(ars[i])[k2] => k1 = k2

Merged == last.op = "merge" /\ status = "ok"

\* C15 (as claimed): the merge of archives none of which holds a name twice
\* is a Regular archive whose records are, by archive index and then stored
\* order, exactly the records whose name occurs in no earlier archive, each
\* byte-identical.
C15_MergeDedupOrder ==
    (Merged /\ NoInnerDuplicates(arrayOfArs)) =>
        /\ arCompression = SISWA_COMPRESSION_NONE
        /\ Readable(arData, arLen)
        /\ Records(arData, arLen) = MergeExpected(arrayOfArs)

\* C20 (as claimed): the merge that leaves the names of the last archive out
\* of the scratch set ends as, and emits the same buffer and length as, the
\* merge that inserts the names of every archive, also for archives that hold
\* a name more than once.
C20_LastArchiveOptimisation ==
    last.op = "merge" =>
        LET ref == MergeMul(arrayOfArs, FreshBuffer, ArCap, TRUE) IN
        /\ ref.st = status
        /\ status = "ok" => (ref.data = arData /\ ref.totalSize = arLen)

\* The offsets of the linker entries met from the end of the header.
RECURSIVE ArlIterFrom(_, _, _)
ArlIterFrom(data, len, cur) ==
    LET p == ArlPollStep(data, len, cur) IN
    IF p.st # "ok" \/ p.entry = NULL THEN <<>>
    ELSE <<p.entry>> \o ArlIterFrom(data, len, p.cur)

\* The stored names of the linker, in stored order.
ArlNames(data, len) ==
    LET offs == ArlIterFrom(data, len, siswa_arlGetHeaderLength(data)) IN
    [k \in 1 .. Len(offs) |-> Bytes(data, offs[k] + 1, At(data, offs[k]))]

\* archiveSizes[i] as its four bytes.
ArchiveSizes(data, i) == Bytes(data, ArchiveSizesAt(i), sizeof_uint32_t)

\* C16 (as claimed): every successful add / remove / update of the linker
\* keeps archive_sizes[i] the sum of 20 + name_len + 1 over the entries of
\* index i: an add of a name raises it by 20 + len(name) + 1, a remove of a
\* stored name lowers it by as much (so add then remove restores it), an
\* update of a stored name changes it by the difference of the name lengths;
\* the sizes of the other indexes stay.
C16_LinkerSizeAccounting ==
    [][ (last'.op \in {"arladd", "arlremove", "arlupdate"} /\ status' = "ok"
            /\ last'.ret = SISWA_SUCCESS
            /\ (last'.op = "arladd"
                    \/ \E k \in DOMAIN ArlNames(arData, arLen) :
                           ArlNames(arData, arLen)[k] = last'.name)) =>
            LET i == last'.offset
                delta == IF last'.op = "arladd" THEN 20 + Len(last'.name) + 1
                         ELSE IF last'.op = "arlremove" THEN 0 - (20 + Len(last'.name) + 1)
                         ELSE Len(last'.data) - Len(last'.name)
            IN  /\ ArchiveSizes(arData', i)
                       = AddToBytes(ArchiveSizes(arData, i), 1, delta)
                /\ \A j \in 0 .. (ArchiveCount - 1) :
                       j # i => ArchiveSizes(arData', j) = ArchiveSizes(arData, j) ]_vars

\* The sum of 20 + len + 1 over the names of a sequence.
RECURSIVE AccountedFor(_, _)
AccountedFor(names, k) ==
    IF k > Len(names) THEN 0
    ELSE (20 + Len(names[k]) + 1) + AccountedFor(names, k + 1)

\* No name occurs twice in the archives: not inside one, not in two of them.
AllNamesDistinct(ars) ==
    /\ NoInnerDuplicates(ars)
    /\ \A i, j \in 1 .. Len(ars) :
          i # j => Range(NamesOf(ars[i])) \cap Range(NamesOf(ars[j])) = {}

\* C17 (as claimed): the linker made from one archive has archive count 1 and
\* the archive's entry names in stored order; the linker made from the array
\* of archives has the names of all archives in array order, and
\* archive_sizes[i] accounts the names of archive i.
C17_LinkerFromArchives ==
    /\ (last.op = "fromar" /\ status = "ok" /\ AllNamesDistinct(arrayOfArs)) =>
           LET names == NamesOf(arrayOfArs[last.offset]) IN
           /\ Rd32(arData, 4) = 1
           /\ ArlNames(arData, arLen) = names
           /\ ArchiveSizes(arData, 0) = Le32(AccountedFor(names, 1))
    /\ (last.op = "fromarmul" /\ status = "ok" /\ AllNamesDistinct(arrayOfArs)) =>
           /\ Rd32(arData, 4) = Len(arrayOfArs)
           /\ ArlNames(arData, arLen)
                  = Flatten([i \in 1 .. Len(arrayOfArs) |-> NamesOf(arrayOfArs[i])], 1)
           /\ \A i \in 1 .. Len(arrayOfArs) :
                  ArchiveSizes(arData, i - 1)
                      = Le32(AccountedFor(NamesOf(arrayOfArs[i]), 1))

\* The (size, bytes) of the chunks a SEGS buffer of stored chunks names.
SegsChunks(data) ==
    LET chunks == Be16(data, 6)
        baseOffset == sizeof_siSegsHeader + chunks * sizeof_siSegsEntry
    IN  [k \in 1 .. chunks |->
            LET entry == sizeof_siSegsHeader + (k - 1) * sizeof_siSegsEntry
                size == Be16(data, entry + 2)
                offset == IF k = 1 /\ Be32(data, entry + 4) = 1 THEN baseOffset
                          ELSE Be32(data, entry + 4) - 1
            IN  Bytes(data, offset, size)]

\* C18 (as claimed): decompress_segs on a SEGS buffer of one or more chunks
\* whose sizes sum to the header's uncompressed_size, with an output buffer
\* of at least that size, writes the chunks back to back, so that
\* out[0 .. uncompressed_size) is their concatenation, and rebinds the
\* handle to data = out, length = uncompressed_size, kind = Regular.
C18_SegsConcatenation ==
    [][ (last'.op = "segs" /\ arCompression = SISWA_COMPRESSION_SEGS) =>
            LET expected == Flatten(SegsChunks(arData), 1) IN
            (Len(expected) = Be32(arData, 8) /\ Be16(arData, 6) >= 1) =>
                /\ status' = "ok"
                /\ arLen' = Be32(arData, 8)
                /\ arCompression' = SISWA_COMPRESSION_NONE
                /\ Bytes(arData', 0, arLen') = expected ]_vars

\* C19 (as claimed): decompress_segs on a handle that is not Segs, and
\* decompress_xcomp on a handle that is not XCompressed, do not end the
\* process and leave the handle and the buffer as they were.
C19_WrongKindNonFatal ==
    [][ ((last'.op = "segs" /\ arCompression # SISWA_COMPRESSION_SEGS)
            \/ (last'.op = "xcomp" /\ arCompression # SISWA_COMPRESSION_X)) =>
            /\ status' = "ok"
            /\ Untouched ]_vars

\* C21 (as claimed): merge_many over a finite list of archives, with
\* sufficient output capacity, finishes, however many distinct names the
\* non-last archives hold: the insertion into the scratch set always finds
\* a free slot or otherwise ends.
C21_MergeTerminates == (run.op = "merge" \/ last.op = "merge") => status # "hang"

\* The sequence ss without its elements equal to x.
RECURSIVE Without(_, _)
Without(ss, x) ==
    IF ss = <<>> THEN <<>>
    ELSE (IF Head(ss) = x THEN <<>> ELSE <<Head(ss)>>) \o Without(Tail(ss), x)

\* C22 (as claimed): a remove(name, archive_index) of a stored name succeeds,
\* shrinks the linker's length by 1 + the stored length of that name and
\* leaves the other entries as they were, in order and contiguous, so that
\* the iteration gives exactly the other entries; a remove of a name that is
\* not stored returns failure and changes nothing.  Calls whose outcome hangs
\* on a byte nothing has written are left aside.
C22_LinkerRemove ==
    [][ (last'.op = "arlremove" /\ last'.offset < ArchiveCount /\ status' # "ub") =>
            LET before == ArlNames(arData, arLen)
                name == last'.name
            IN  IF \E k \in DOMAIN before : before[k] = name
                THEN /\ status' = "ok"
                     /\ last'.ret = SISWA_SUCCESS
                     /\ arLen' = arLen - (1 + Len(name))
                     /\ ArlNames(arData', arLen') = Without(before, name)
                ELSE /\ status' = "ok"
                     /\ last'.ret = SISWA_FAILURE
                     /\ Untouched ]_vars

\* C23 (as claimed): a linker handle made over an ARL2 buffer has its cursor
\* at the end of the linker header, 8 + 4 * archive_count, for every
\* archive_count >= 1: the first poll returns the first linker entry and
\* entry_count on the fresh handle is the number of stored entries.
C23_LinkerCursorInit ==
    [][ last.op = "arlmake" =>
            LET headerEnd == 8 + 4 * Rd32(arData, 4)
                stored == Len(ArlNames(arData, arLen))
            IN  /\ arCurOffset = headerEnd
                /\ last'.op = "arlpoll" =>
                       /\ status' = "ok"
                       /\ last'.ret = IF stored = 0 THEN NULL ELSE headerEnd
                /\ last'.op = "arlcount" =>
                       /\ status' = "ok"
                       /\ last'.ret = stored ]_vars

\* Where the iteration over the linker entries ends.
ArlEnd(data, len) ==
    LET offs == ArlIterFrom(data, len, siswa_arlGetHeaderLength(data)) IN
    IF offs = <<>> THEN siswa_arlGetHeaderLength(data)
    ELSE offs[Len(offs)] + 1 + At(data, offs[Len(offs)])

\* C24 (as claimed): in every state reached from an empty linker by add /
\* remove / update calls, no two resident linker entries carry the same
\* name (looked at wherever the entries end exactly at the linker's length).
C24_LinkerNamesUnique ==
    (status = "ok" /\ ArlEnd(arData, arLen) = arLen) =>
        LET names == ArlNames(arData, arLen) IN
        \A j, k \in DOMAIN names : j # k => names[j] # names[k]

\* C25 (as claimed): a chunk entry whose stored uncompressed size is 0 is
\* processed as 65536 bytes, one whose stored compressed size is 0 as 65536
\* bytes, and every other stored value v in 1 .. 65535 as v.
C25_SegsSizeSpecialCase ==
    run.op = "segsentry" =>
        LET zSize == Be16(arData, sizeof_siSegsHeader)
            size == Be16(arData, sizeof_siSegsHeader + 2)
        IN  /\ run.size = IF size = 0 THEN 65536 ELSE size
            /\ run.zSize = IF zSize = 0 THEN 65536 ELSE zSize

\* C26 (as claimed): whenever out_capacity >= the header's uncompressed_size
\* and the chunks' uncompressed sizes sum to uncompressed_size, every byte
\* decompress_segs writes lies in out[0 .. out_capacity), for any chunk
\* count, also when out_capacity = uncompressed_size.
C26_SegsOutputInside ==
    [][ (last'.op = "segs" /\ arCompression = SISWA_COMPRESSION_SEGS
            /\ last'.offset >= Be32(arData, 8)
            /\ Len(Flatten(SegsChunks(arData), 1)) = Be32(arData, 8)) =>
            status' # "ub" ]_vars

\* C27 (as claimed): HDR moves to STORED, FIXED or DYNAMIC according to the
\* block type and returns the bytes decoded so far on type 3; FIXED and
\* DYNAMIC move to BULK; the end of a block (symbol 256 in BULK, the end of
\* a stored block) leads back to HDR when the final flag was clear and ends
\* the decoding when it was set; no block header is read after a final block.
C27_BlockSequencing ==
    [][ (run.op = "inflate" /\ status' = "ok") =>
            /\ run.state = "HDR" =>
                   /\ run.last = 0
                   /\ run'.sym = 0 => run'.state = "STORED"
                   /\ run'.sym = 1 => run'.state = "FIXED"
                   /\ run'.sym = 2 => run'.state = "DYNAMIC"
                   /\ run'.sym = 3 => (run'.state = "RET" /\ run'.ret = run.out)
            /\ run.state \in {"FIXED", "DYNAMIC"} => run'.state = "BULK"
            /\ (run.state = "BULK" /\ run.pc \in {"top", "lit2"} /\ run'.sym = 256) =>
                   /\ run.last = 0 => run'.state = "HDR"
                   /\ run.last = 1 => (run'.state = "RET" /\ run'.ret = run'.out)
            /\ (run.state = "STORED" /\ run'.out > run.out) =>
                   /\ run.last = 0 => run'.state = "HDR"
                   /\ run.last = 1 => (run'.state = "RET" /\ run'.ret = run'.out) ]_vars

\* C27 witness: a final block has ended with symbol 256 behind a block that
\* was not final, and the decoding has returned.
C27_Witness ==
    /\ run.op = "inflate"
    /\ status = "ok"
    /\ run.state = "RET"
    /\ run.sym = 256
    /\ run.last = 1
    /\ run.out > 0

\* C28 (as claimed): siswa_decompressDeflate never writes a byte at or
\* beyond out + capacity and returns a count <= capacity, whether the bytes
\* come from a stored block, a first or second literal, or a match copy.
C28_InflateOutputBound ==
    run.op = "inflate" =>
        /\ run.top <= run.capacity
        /\ run.state = "RET" => run.ret <= run.capacity

\* The byte-by-byte overlapping copy out[pos + i] = out[pos + i - offs], out[i]
\* being at index i + 1 of the sequence.
RECURSIVE ReferenceCopy(_, _, _, _, _)
ReferenceCopy(out, pos, offs, len, i) ==
    IF i = len THEN out
    ELSE ReferenceCopy([out EXCEPT ![pos + i + 1] = out[pos + i - offs + 1]],
                       pos, offs, len, i + 1)

\* C29: for a match of len bytes from offs <= pos bytes back that fits in the
\* buffer, whichever copy path is selected leaves in out[pos .. pos + len) the
\* bytes of the byte-by-byte overlapping copy, inside the buffer, and leaves
\* the bytes before pos as they were.
C29_MatchCopyEquivalence ==
    [][ (run.op = "match" /\ run.state = "copy" /\ run'.state = "done"
         /\ run.pos + run.len <= run.capacity) =>
            LET ref == ReferenceCopy(run.out, run.pos, run.offs, run.len, 0)
            IN  /\ status' = "ok"
                /\ \A i \in run.pos .. run.pos + run.len - 1 :
                       run'.out[i + 1] = ref[i + 1]
                /\ \A i \in 0 .. run.pos - 1 : run'.out[i + 1] = run.out[i + 1] ]_vars

\* C29 witness: a 16-byte copy of a match that overlaps its source and needs
\* more than the three copies that are always made.
C29_Witness ==
    /\ run.op = "match"
    /\ run.state = "done"
    /\ status = "ok"
    /\ run.path = "simd"
    /\ run.offs < run.len
    /\ run.len > 16 * 3

\* The step to come starts with sinfl_refill.
Refills ==
    /\ run.op = "inflate"
    /\ run.state \in {"HDR", "DYNAMIC"} \/ (run.state = "BULK" /\ run.pc = "top")

\* C30 (as claimed): right after every refill 56 <= bitcnt <= 63, and the
\* assertions cnt <= bitcnt of peek and eat never fail, for all tables with
\* code lengths up to 15 bits, also along one BULK turn that decodes a
\* literal, a length symbol with extra bits and a distance symbol with
\* extra bits after a single refill.
C30_BitReader ==
    run.op = "inflate" =>
        /\ Refills =>
               LET b == sinfl_refill(BitReader(run.bitcnt)) IN
               56 <= b.bitcnt /\ b.bitcnt <= 63
        /\ status # "aborted"

====
